---- MODULE Spec2Model ----
(***************************************************************************)
(* Loop fusion pass (fourth_assignment/loopFusion.cpp): the legality       *)
(* checks, the CFG surgery of applyLoopFusion and the fixed-point driver   *)
(* LoopFusion::run, over a small SSA intermediate representation.          *)
(*                                                                         *)
(* A function is a map  block id -> sequence of instructions.  A block's   *)
(* phi nodes come first, its terminator (if it has one) last.              *)
(***************************************************************************)
EXTENDS Integers, Sequences, FiniteSets, TLC

(***************************************************************************)
(* Bounds of the model.                                                    *)
(***************************************************************************)
MaxTrip == 3        \* largest number of body iterations of a generated loop
MaxOff == 1         \* subscripts are i + o with o in -MaxOff..MaxOff

(***************************************************************************)
(* Operands and instructions.                                              *)
(***************************************************************************)
C(n) == [k |-> "c", v |-> n]          \* integer constant
R(id) == [k |-> "r", v |-> id]        \* result of instruction id
G(g) == [k |-> "g", v |-> g]          \* global array g
A(n) == [k |-> "a", v |-> n]          \* value only known at run time

Null == 0 - 1                          \* nullptr, for block and loop queries

Inst(id, op, x, y, s, inc, succ) ==
    [id |-> id, op |-> op, x |-> x, y |-> y, s |-> s, inc |-> inc, succ |-> succ]

Phi(id, inc) == Inst(id, "phi", C(0), C(0), 0, inc, <<>>)
Add(id, x, y) == Inst(id, "add", x, y, 0, <<>>, <<>>)
ICmp(id, x, y) == Inst(id, "icmp", x, y, 0, <<>>, <<>>)     \* icmp slt x, y
Gep(id, p, i, s) == Inst(id, "gep", p, i, s, <<>>, <<>>)    \* p + s * i
Load(id, p) == Inst(id, "load", p, C(0), 0, <<>>, <<>>)
Store(id, v, p) == Inst(id, "store", v, p, 0, <<>>, <<>>)
Br(id, t) == Inst(id, "br", C(1), C(0), 0, <<>>, <<t>>)
\* successor 0 (succ[1]) is taken when the condition holds
CondBr(id, c, t, e) == Inst(id, "br", c, C(0), 0, <<>>, <<t, e>>)
Ret(id) == Inst(id, "ret", C(0), C(0), 0, <<>>, <<>>)
In(v, b) == [val |-> v, blk |-> b]

NoInst == Inst(Null, "none", C(0), C(0), 0, <<>>, <<>>)

isTerminator(i) == i.op \in {"br", "ret"}

Range(s) == {s[i] : i \in 1..Len(s)}

\* position of the instruction with the given id in a sequence, 0 if absent
RECURSIVE IndexOf(_, _, _)
IndexOf(s, id, i) ==
    IF i > Len(s) THEN 0
    ELSE IF s[i].id = id THEN i ELSE IndexOf(s, id, i + 1)

RemoveAt(s, i) == SubSeq(s, 1, i - 1) \o SubSeq(s, i + 1, Len(s))
InsertAt(s, i, e) == SubSeq(s, 1, i - 1) \o <<e>> \o SubSeq(s, i, Len(s))
RemoveId(s, id) == SelectSeq(s, LAMBDA e : e.id # id)


(***************************************************************************)
(* The IR queries the pass uses (llvm::BasicBlock, llvm::Value).           *)
(***************************************************************************)
EntryBlock == 3

AllInsts(f) == UNION {Range(f[b]) : b \in DOMAIN f}

getTerminator(f, b) ==
    IF Len(f[b]) > 0 /\ isTerminator(f[b][Len(f[b])]) THEN f[b][Len(f[b])]
    ELSE NoInst

\* successors of the block's terminator, in operand order
successors(f, b) == Range(getTerminator(f, b).succ)

\* the blocks holding a terminator instruction that uses b
predecessors(f, b) ==
    {p \in DOMAIN f : \E i \in Range(f[p]) : isTerminator(i) /\ b \in Range(i.succ)}

UsesValue(i, id) ==
    \/ i.x = R(id)
    \/ i.y = R(id)
    \/ \E j \in 1..Len(i.inc) : i.inc[j].val = R(id)

users(f, id) == {i \in AllInsts(f) : UsesValue(i, id)}

hasNUses0(f, id) == users(f, id) = {}

InstById(f, id) ==
    IF \E i \in AllInsts(f) : i.id = id
    THEN CHOOSE i \in AllInsts(f) : i.id = id
    ELSE NoInst

\* the block holding instruction id (Instruction::getParent)
getParent(f, id) ==
    IF \E b \in DOMAIN f : \E i \in Range(f[b]) : i.id = id
    THEN CHOOSE b \in DOMAIN f : \E i \in Range(f[b]) : i.id = id
    ELSE Null

MapInsts(f, Op(_)) == [b \in DOMAIN f |-> [j \in 1..Len(f[b]) |-> Op(f[b][j])]]

ReplaceVal(i, old, new) ==
    [i EXCEPT !.x = IF @ = R(old) THEN new ELSE @,
              !.y = IF @ = R(old) THEN new ELSE @,
              !.inc = [j \in 1..Len(@) |->
                          IF @[j].val = R(old) THEN In(new, @[j].blk) ELSE @[j]]]

\* Value::replaceAllUsesWith on an instruction
replaceAllUsesWithValue(f, old, new) ==
    MapInsts(f, LAMBDA i : ReplaceVal(i, old, new))

ReplaceSucc(i, old, new) ==
    [i EXCEPT !.succ = [j \in 1..Len(@) |-> IF @[j] = old THEN new ELSE @[j]]]

ReplacePhiBlock(i, old, new) ==
    IF i.op # "phi" THEN i
    ELSE [i EXCEPT !.inc = [j \in 1..Len(@) |->
                               IF @[j].blk = old THEN In(@[j].val, new) ELSE @[j]]]

RepointPhis(f1, succs, old, new) ==
    [b \in DOMAIN f1 |->
        IF b \in succs
        THEN [j \in 1..Len(f1[b]) |-> ReplacePhiBlock(f1[b][j], old, new)]
        ELSE f1[b]]

\* Value::replaceAllUsesWith on a basic block: every branch operand naming
\* old is set to new; then, as Value::doRAUW does for a block, the phi nodes
\* of the successors of old's own terminator are repointed
\* (BasicBlock::replaceSuccessorsPhiUsesWith, which does nothing when old
\* has no terminator).
replaceAllUsesWithBlock(f, old, new) ==
    RepointPhis(MapInsts(f, LAMBDA i : ReplaceSucc(i, old, new)),
                IF old \in DOMAIN f THEN successors(f, old) \cap DOMAIN f ELSE {},
                old, new)

\* BasicBlock::eraseFromParent
eraseBlock(f, b) == [c \in (DOMAIN f) \ {b} |-> f[c]]

\* Instruction::eraseFromParent
eraseInst(f, id) ==
    [b \in DOMAIN f |-> RemoveId(f[b], id)]

\* index of the first non-phi instruction of a block (Len + 1 if none)
RECURSIVE FirstNonPHIFrom(_, _)
FirstNonPHIFrom(s, i) ==
    IF i > Len(s) THEN i
    ELSE IF s[i].op # "phi" THEN i ELSE FirstNonPHIFrom(s, i + 1)

getFirstNonPHI(f, b) == FirstNonPHIFrom(f[b], 1)

InsertInst(f1, b, pos, i) == [f1 EXCEPT ![b] = InsertAt(@, pos, i)]

BeforePos(s, before) ==
    IF IndexOf(s, before, 1) = 0 THEN Len(s) + 1 ELSE IndexOf(s, before, 1)

MoveTo(f1, i, b, before) == InsertInst(f1, b, BeforePos(f1[b], before), i)

\* Instruction::moveBefore: instruction id leaves its block and is inserted
\* in block b right before instruction `before`
moveBefore(f, id, b, before) == MoveTo(eraseInst(f, id), InstById(f, id), b, before)

MoveBehind(f1, i, b, after) == InsertInst(f1, b, IndexOf(f1[b], after, 1) + 1, i)

\* Instruction::moveAfter
moveAfter(f, id, b, after) == MoveBehind(eraseInst(f, id), InstById(f, id), b, after)

(***************************************************************************)
(* Control-flow analyses: DominatorTree, PostDominatorTree, LoopInfo.      *)
(***************************************************************************)
\* blocks reached from `seen` along successor edges (predecessor edges if
\* back) without entering `avoid`
RECURSIVE Closure(_, _, _, _)
Closure(f, seen, avoid, back) ==
    LET next == {n \in (DOMAIN f) \ (seen \cup avoid) :
                    \E m \in seen \cap DOMAIN f :
                        IF back THEN m \in successors(f, n)
                        ELSE n \in successors(f, m)}
    IN IF next = {} THEN seen ELSE Closure(f, seen \cup next, avoid, back)

Reachable(f) == Closure(f, {EntryBlock} \cap DOMAIN f, {}, FALSE)

ExitBlocks(f) == {b \in DOMAIN f : getTerminator(f, b).op = "ret"}

\* DominatorTree::dominates(a, b)
dominates(f, a, b) ==
    \/ a = b
    \/ b \notin Closure(f, ({EntryBlock} \cap DOMAIN f) \ {a}, {a}, FALSE)

\* PostDominatorTree::dominates(a, b): a is on every path from b to a return
postDominates(f, a, b) ==
    \/ a = b
    \/ Closure(f, {b}, {a}, FALSE) \cap ExitBlocks(f) = {}

\* LoopInfo: one natural loop per header with a back edge
backEdgeSources(f, h) ==
    {t \in predecessors(f, h) \cap Reachable(f) : dominates(f, h, t)}

loopBlocks(f, h) == {h} \cup Closure(f, backEdgeSources(f, h) \ {h}, {h}, TRUE)

LoopOf(f, h) == [header |-> h, blocks |-> loopBlocks(f, h)]

AllLoops(f) == {LoopOf(f, h) : h \in {b \in Reachable(f) : backEdgeSources(f, b) # {}}}

Nested(inner, outer) == inner # outer /\ inner.blocks \subseteq outer.blocks

\* LoopInfo::getLoopsInPreorder: preorder across the loop nests, siblings in
\* forward program order (block ids follow program order)
RECURSIVE PreorderOf(_)
PreorderOf(S) ==
    IF S = {} THEN <<>>
    ELSE LET tops == {l \in S : ~ \E o \in S : Nested(l, o)}
             m == CHOOSE l \in tops : \A o \in tops : l.header <= o.header
             sub == {l \in S : Nested(l, m)}
         IN <<m>> \o PreorderOf(sub) \o PreorderOf(S \ (sub \cup {m}))

getLoopsInPreorder(f) == PreorderOf(AllLoops(f))

(***************************************************************************)
(* llvm::Loop queries, answered from the loop's block list and the         *)
(* current CFG.                                                            *)
(***************************************************************************)
contains(L, b) == b \in L.blocks

getHeader(L) == L.header

getLoopLatch(f, L) ==
    LET ins == {p \in predecessors(f, L.header) : contains(L, p)}
    IN IF Cardinality(ins) = 1 THEN CHOOSE p \in ins : TRUE ELSE Null

getLoopPredecessor(f, L) ==
    LET outs == {p \in predecessors(f, L.header) : ~contains(L, p)}
    IN IF Cardinality(outs) = 1 THEN CHOOSE p \in outs : TRUE ELSE Null

getLoopPreheader(f, L) ==
    LET out == getLoopPredecessor(f, L)
    IN IF out = Null THEN Null
       ELSE IF Len(getTerminator(f, out).succ) # 1 THEN Null
       ELSE out

\* exit edges <<block, successor position>> of the loop
ExitEdges(f, L) ==
    {e \in (L.blocks \cap DOMAIN f) \X {1, 2} :
        /\ e[2] <= Len(getTerminator(f, e[1]).succ)
        /\ ~contains(L, getTerminator(f, e[1]).succ[e[2]])}

ExitTarget(f, e) == getTerminator(f, e[1]).succ[e[2]]

\* Loop::getExitBlock: the target of the only exit edge, else nullptr
getExitBlock(f, L) ==
    LET es == ExitEdges(f, L)
    IN IF Cardinality(es) = 1 THEN ExitTarget(f, CHOOSE e \in es : TRUE) ELSE Null

\* Loop::getUniqueExitBlock: the only block exit edges lead to
getUniqueExitBlock(f, L) ==
    LET ts == {ExitTarget(f, e) : e \in ExitEdges(f, L)}
    IN IF Cardinality(ts) = 1 THEN CHOOSE t \in ts : TRUE ELSE Null

hasDedicatedExits(f, L) ==
    \A e \in ExitEdges(f, L) :
        ExitTarget(f, e) \in DOMAIN f =>
            \A p \in predecessors(f, ExitTarget(f, e)) : contains(L, p)

isLoopSimplifyForm(f, L) ==
    /\ getLoopPreheader(f, L) # Null
    /\ getLoopLatch(f, L) # Null
    /\ hasDedicatedExits(f, L)

isLoopExiting(f, L, b) == \E e \in ExitEdges(f, L) : e[1] = b

isRotatedForm(f, L) ==
    getLoopLatch(f, L) # Null /\ isLoopExiting(f, L, getLoopLatch(f, L))

getUniqueSuccessor(f, b) ==
    IF b \in DOMAIN f /\ Cardinality(successors(f, b)) = 1
    THEN CHOOSE t \in successors(f, b) : TRUE ELSE Null

getUniquePredecessor(f, b) ==
    IF b \in DOMAIN f /\ Cardinality(predecessors(f, b)) = 1
    THEN CHOOSE p \in predecessors(f, b) : TRUE ELSE Null

\* llvm::skipEmptyBlockUntil(From, End, CheckUniquePred = true)
RECURSIVE SkipEmpty(_, _, _, _, _)
SkipEmpty(f, bb, predBB, end, visited) ==
    IF /\ bb # Null
       /\ bb \in DOMAIN f
       /\ bb # end
       /\ Len(f[bb]) = 1
       /\ bb \notin visited
       /\ getUniquePredecessor(f, bb) # Null
    THEN SkipEmpty(f, getUniqueSuccessor(f, bb), bb, end, visited \cup {bb})
    ELSE IF bb = end THEN end ELSE predBB

skipEmptyBlockUntil(f, from, end) ==
    IF from = end \/ getUniqueSuccessor(f, from) = Null THEN from
    ELSE SkipEmpty(f, getUniqueSuccessor(f, from), from, end, {})

\* the successor of the guard's branch that is not the preheader
GuardOther(bi, pre) == IF bi.succ[1] = pre THEN bi.succ[2] ELSE bi.succ[1]

GuardedBy(f, L, guardBB, bi, pre) ==
    IF bi.op # "br" \/ Len(bi.succ) # 2 THEN Null
    ELSE IF skipEmptyBlockUntil(f, getUniqueExitBlock(f, L), GuardOther(bi, pre))
               = GuardOther(bi, pre)
    THEN guardBB ELSE Null

GuardOf(f, L, guardBB, pre) ==
    IF guardBB = Null THEN Null
    ELSE GuardedBy(f, L, guardBB, getTerminator(f, guardBB), pre)

GuardFromPreheader(f, L, pre) == GuardOf(f, L, getUniquePredecessor(f, pre), pre)

\* Loop::getLoopGuardBranch: the block whose conditional branch guards the
\* loop, or nullptr
getLoopGuardBlock(f, L) ==
    IF ~isLoopSimplifyForm(f, L) \/ ~isRotatedForm(f, L) THEN Null
    ELSE IF getUniqueExitBlock(f, L) = Null THEN Null
    ELSE GuardFromPreheader(f, L, getLoopPreheader(f, L))

isGuarded(f, L) == getLoopGuardBlock(f, L) # Null


(***************************************************************************)
(* ScalarEvolution, as far as the pass consults it: the affine form        *)
(*   base + start + syms + sum of steps[h] * (iteration of loop h)         *)
(* of a value, and the constant trip count of a loop.  LS is the set of    *)
(* loops of LoopInfo.                                                      *)
(***************************************************************************)
Aff(base, start, syms, steps) ==
    [base |-> base, start |-> start, syms |-> syms, steps |-> steps]

NoSteps == [h \in {} |-> 0]

StepOf(a, h) == IF h \in DOMAIN a.steps THEN a.steps[h] ELSE 0

DropZero(st) == [h \in {x \in DOMAIN st : st[x] # 0} |-> st[h]]

AffSum(a, b) ==
    Aff(IF a.base = 0 THEN b.base ELSE a.base,
        a.start + b.start,
        a.syms \cup b.syms \cup (IF a.base # 0 /\ b.base # 0 THEN {0 - b.base} ELSE {}),
        DropZero([h \in DOMAIN a.steps \cup DOMAIN b.steps |->
                     StepOf(a, h) + StepOf(b, h)]))

AffScale(a, s) ==
    Aff(0, a.start * s,
        a.syms \cup (IF a.base # 0 THEN {0 - a.base} ELSE {}),
        DropZero([h \in DOMAIN a.steps |-> a.steps[h] * s]))

Unknown(id) == Aff(0, 0, {id}, NoSteps)

\* the loop of LS whose header holds the phi, with the phi's start and
\* back-edge operands
PhiLoops(f, LS, phi) ==
    {L \in LS :
        /\ L.header = getParent(f, phi.id)
        /\ Len(phi.inc) = 2
        /\ Cardinality({j \in 1..2 : contains(L, phi.inc[j].blk)}) = 1}

BackIn(L, phi) == phi.inc[CHOOSE j \in 1..2 : contains(L, phi.inc[j].blk)].val
StartIn(L, phi) == phi.inc[CHOOSE j \in 1..2 : ~contains(L, phi.inc[j].blk)].val

NoConst == [const |-> FALSE, v |-> 0]
Const(v) == [const |-> TRUE, v |-> v]

StepFrom(n, phi) ==
    IF n.op = "add" /\ n.x = R(phi.id) /\ n.y.k = "c" THEN Const(n.y.v)
    ELSE IF n.op = "add" /\ n.y = R(phi.id) /\ n.x.k = "c" THEN Const(n.x.v)
    ELSE NoConst

\* the constant step of an induction phi: its back-edge value is phi + c
PhiStep(f, phi, back) ==
    IF back.k # "r" THEN NoConst ELSE StepFrom(InstById(f, back.v), phi)

PhiRec(header, st, start, id) ==
    IF ~st.const THEN Unknown(id)
    ELSE AffSum(start, Aff(0, 0, {}, DropZero(header :> st.v)))

RECURSIVE getSCEV(_, _, _, _)
RECURSIVE InstSCEV(_, _, _, _, _)
RECURSIVE PhiSCEV(_, _, _, _, _)
PhiSCEV(f, LS, i, L, depth) ==
    PhiRec(L.header, PhiStep(f, i, BackIn(L, i)),
           getSCEV(f, LS, StartIn(L, i), depth - 1), i.id)

InstSCEV(f, LS, i, id, depth) ==
    IF depth = 0 THEN Unknown(id)
    ELSE IF i.op = "add"
    THEN AffSum(getSCEV(f, LS, i.x, depth - 1), getSCEV(f, LS, i.y, depth - 1))
    ELSE IF i.op = "gep"
    THEN AffSum(getSCEV(f, LS, i.x, depth - 1),
                AffScale(getSCEV(f, LS, i.y, depth - 1), i.s))
    ELSE IF i.op = "phi" /\ PhiLoops(f, LS, i) # {}
    THEN PhiSCEV(f, LS, i, CHOOSE l \in PhiLoops(f, LS, i) : TRUE, depth)
    ELSE Unknown(id)

\* ScalarEvolution::getSCEV of an operand
getSCEV(f, LS, op, depth) ==
    IF op.k = "c" THEN Aff(0, op.v, {}, NoSteps)
    ELSE IF op.k = "g" THEN Aff(op.v, 0, {}, NoSteps)
    ELSE IF op.k = "a" THEN Unknown(0 - 1000 - op.v)
    ELSE InstSCEV(f, LS, InstById(f, op.v), op.v, depth)

SCEVDepth == 6

SCEVOf(f, LS, op) == getSCEV(f, LS, op, SCEVDepth)

isConstantSCEV(a) == a.base = 0 /\ a.syms = {} /\ DOMAIN a.steps = {}

\* the pointer operand of a load or a store (llvm::getLoadStorePointerOperand)
getLoadStorePointerOperand(i) == IF i.op = "store" THEN i.y ELSE i.x

\* the innermost loop the expression is a recurrence of
AddRecLoop(LS, a) ==
    CHOOSE h \in DOMAIN a.steps :
        \A g \in DOMAIN a.steps :
            \A Lh \in LS : \A Lg \in LS :
                (Lh.header = h /\ Lg.header = g) => ~Nested(Lg, Lh)

\* the SCEV of the pointer of every load and store, as ScalarEvolution
\* caches it
PointerSCEVs(f, LS) ==
    [id \in {i.id : i \in {x \in AllInsts(f) : x.op \in {"load", "store"}}} |->
        SCEVOf(f, LS, getLoadStorePointerOperand(InstById(f, id)))]

\* thresholds of the profitability check
CACHE_LINE_DIM == 64
MIN_TRIP_COUNT == 10

\* ScalarEvolution::getSmallConstantTripCount: the number of times the
\* header runs when that is a known constant, 0 when it is not; no loop
\* of the model runs its header more often than TripCap
TripCap == MaxTrip + MIN_TRIP_COUNT

FirstFailing(ks) == IF ks = {} THEN 0 ELSE 1 + (CHOOSE k \in ks : \A m \in ks : k <= m)

\* header executions of a loop leaving through branch position pos of a
\* branch on  x < y, one side the counter and the other a constant
CountedTrips(x, y, h, pos) ==
    IF /\ isConstantSCEV(y)
       /\ x.base = 0 /\ x.syms = {}
       /\ DOMAIN x.steps = {h}
    THEN FirstFailing({k \in 0..TripCap :
            (x.start + x.steps[h] * k < y.start) # (pos = 2)})
    ELSE IF /\ isConstantSCEV(x)
            /\ y.base = 0 /\ y.syms = {}
            /\ DOMAIN y.steps = {h}
    THEN FirstFailing({k \in 0..TripCap :
            (x.start < y.start + y.steps[h] * k) # (pos = 2)})
    ELSE 0

TripsOfCompare(f, LS, L, c, t, pos) ==
    IF Len(t.succ) # 2 \/ c.op # "icmp" THEN 0
    ELSE CountedTrips(SCEVOf(f, LS, c.x), SCEVOf(f, LS, c.y), L.header, pos)

TripsOfBranch(f, LS, L, t, pos) ==
    TripsOfCompare(f, LS, L, IF t.x.k = "r" THEN InstById(f, t.x.v) ELSE NoInst, t, pos)

TripsOfExit(f, LS, L, e) == TripsOfBranch(f, LS, L, getTerminator(f, e[1]), e[2])

\* ScalarEvolution::getSmallConstantTripCount: the number of times the
\* header runs when that is a known constant, 0 when it is not
getSmallConstantTripCount(f, LS, L) ==
    IF Cardinality(ExitEdges(f, L)) # 1 THEN 0
    ELSE TripsOfExit(f, LS, L, CHOOSE x \in ExitEdges(f, L) : TRUE)

(***************************************************************************)
(* The analysis results updateLoopInfo fetches:                            *)
(*   an.LI  loops in preorder        an.DT, an.PDT  pairs <<a, b>>, a      *)
(*   an.SE  trip count per header                   (post)dominates b      *)
(*   an.DI  how precise the dependence oracle is                           *)
(***************************************************************************)
LoopSet(an) == Range(an.LI)

pointerSCEV(an, inst) ==
    IF inst.id \in DOMAIN an.SE.scev THEN an.SE.scev[inst.id] ELSE Unknown(inst.id)

tripCount(an, h) == IF h \in DOMAIN an.SE.trip THEN an.SE.trip[h] ELSE 0

LoopWithHeader(LS, h) == CHOOSE l \in LS : l.header = h

\* the loops an expression recurs over that do not contain L and whose
\* backedge-taken count is known: at the scope of L such a recurrence has
\* its exit value
Exited(an, a, L) ==
    {h \in DOMAIN a.steps :
        /\ \E l \in LoopSet(an) : l.header = h
        /\ ~(L.blocks \subseteq LoopWithHeader(LoopSet(an), h).blocks)
        /\ tripCount(an, h) # 0}

RECURSIVE ExitValues(_, _, _)
ExitValues(an, a, hs) ==
    IF hs = {} THEN 0
    ELSE LET h == CHOOSE x \in hs : TRUE
         IN a.steps[h] * (tripCount(an, h) - 1) + ExitValues(an, a, hs \ {h})

AtScope(an, a, hs) ==
    Aff(a.base, a.start + ExitValues(an, a, hs), a.syms,
        [h \in (DOMAIN a.steps) \ hs |-> a.steps[h]])

\* ScalarEvolution::getSCEVAtScope
getSCEVAtScope(an, a, L) == AtScope(an, a, Exited(an, a, L))

AddRecAt(a, h) ==
    [rec |-> TRUE, base |-> a.base, loop |-> h, step |-> a.steps[h],
     start |-> Aff(a.base, a.start, a.syms,
                   [g \in (DOMAIN a.steps) \ {h} |-> a.steps[g]])]

\* the cast to SCEVAddRecExpr; [rec |-> FALSE] stands for nullptr
asAddRec(LS, a) ==
    IF DOMAIN a.steps = {} THEN [rec |-> FALSE] ELSE AddRecAt(a, AddRecLoop(LS, a))

getSCEVAddRec(an, inst, L) ==
    asAddRec(LoopSet(an), getSCEVAtScope(an, pointerSCEV(an, inst), L))

\* DependenceInfo::depends(src, dst, true) != nullptr.  Accesses to
\* different arrays never depend; on the same array the oracle may answer
\* conservatively ("may") or decide by the addresses touched ("exact").
Touched(an, r) ==
    {r.start.start + r.step * k : k \in 0..(tripCount(an, r.loop) - 1)}

ExactlyDepends(an, r1, r2) ==
    IF ~r1.rec \/ ~r2.rec THEN TRUE
    ELSE IF r1.start.syms # {} \/ r2.start.syms # {} THEN TRUE
    ELSE IF DOMAIN r1.start.steps # {} \/ DOMAIN r2.start.steps # {} THEN TRUE
    ELSE IF tripCount(an, r1.loop) = 0 \/ tripCount(an, r2.loop) = 0 THEN TRUE
    ELSE Touched(an, r1) \cap Touched(an, r2) # {}

DependsOn(an, p1, p2) ==
    IF p1.base = 0 \/ p2.base = 0 THEN TRUE
    ELSE IF p1.base # p2.base THEN FALSE
    ELSE IF an.DI = "may" THEN TRUE
    ELSE ExactlyDepends(an, asAddRec(LoopSet(an), p1), asAddRec(LoopSet(an), p2))

depends(an, src, dst) == DependsOn(an, pointerSCEV(an, src), pointerSCEV(an, dst))

(***************************************************************************)
(* Loop fusion feasibility checks.                                         *)
(***************************************************************************)
getBlockToCheck(f, L) ==
    IF isGuarded(f, L) THEN getLoopGuardBlock(f, L) ELSE getLoopPreheader(f, L)

\* adjacency taken in either direction
areAdjacentsEitherWay(f, L1, L2) ==
    \/ getBlockToCheck(f, L2) = (IF isGuarded(f, L1)
                                 THEN getTerminator(f, getLoopGuardBlock(f, L1)).succ[2]
                                 ELSE getExitBlock(f, L1))
    \/ getBlockToCheck(f, L1) = (IF isGuarded(f, L2)
                                 THEN getTerminator(f, getLoopGuardBlock(f, L2)).succ[2]
                                 ELSE getExitBlock(f, L2))

areAdjacents(f, L1, L2) ==
    LET L2Entry == getBlockToCheck(f, L2)
        L1Exit == IF isGuarded(f, L1)
                  THEN getTerminator(f, getLoopGuardBlock(f, L1)).succ[2]
                  ELSE getExitBlock(f, L1)
    IN L2Entry = L1Exit

\* control-flow equivalence from the dominator tree alone
areCFEByDominance(an, L1, L2) == <<getHeader(L1), getHeader(L2)>> \in an.DT

areCFE(an, L1, L2) ==
    /\ <<getHeader(L1), getHeader(L2)>> \in an.DT
    /\ <<getHeader(L2), getHeader(L1)>> \in an.PDT

\* the trip-count comparison without the check against zero
SameTripsOrUnknown(L1TripCount, L2TripCount) == L1TripCount = L2TripCount

SameTrips(L1TripCount, L2TripCount) ==
    (L1TripCount = L2TripCount) /\ (L1TripCount # 0)

haveSameItNum(an, L1, L2) ==
    SameTrips(tripCount(an, getHeader(L1)), tripCount(an, getHeader(L2)))

\* a1 - a2 as a constant, or not a constant
getConstDelta(a1, a2) ==
    IF a1.syms = a2.syms /\ a1.steps = a2.steps /\ a1.base = a2.base
    THEN Const(a1.start - a2.start)
    ELSE NoConst

\* the distance test on the starts alone
NegativeStarts(const_delta, const_step_delta) ==
    IF const_delta.const /\ const_step_delta.const
    THEN const_delta.v < 0
    ELSE TRUE

\* the distance test answering false when a delta is no constant
NegativeIfConstant(const_delta, const_step_delta) ==
    const_delta.const /\ const_step_delta.const
    /\ (const_delta.v < 0 \/ const_step_delta.v < 0)

\* the distance test with the comparisons turned round
NegativeDeltasReversed(const_delta, const_step_delta) ==
    IF const_delta.const /\ const_step_delta.const
    THEN (const_delta.v > 0) \/ (const_step_delta.v > 0)
    ELSE TRUE

NegativeDeltas(const_delta, const_step_delta) ==
    IF const_delta.const /\ const_step_delta.const
    THEN (const_delta.v < 0) \/ (const_step_delta.v < 0)
    ELSE TRUE

NegativeBetween(inst1_add_rec, inst2_add_rec) ==
    IF ~(inst1_add_rec.rec /\ inst2_add_rec.rec) THEN TRUE
    ELSE IF inst1_add_rec.base # inst2_add_rec.base THEN FALSE
    ELSE NegativeDeltas(getConstDelta(inst1_add_rec.start, inst2_add_rec.start),
                        Const(inst1_add_rec.step - inst2_add_rec.step))

isNegativeDistance(an, L1, L2, inst1, inst2) ==
    NegativeBetween(getSCEVAddRec(an, inst1, L1), getSCEVAddRec(an, inst2, L2))

\* the loads of the loop's blocks
fillLoadStoreVectors(f, L) ==
    {i \in UNION {Range(f[b]) : b \in L.blocks \cap DOMAIN f} : i.op = "load"}

RECURSIVE StripGEPs(_, _, _)
StripGEPs(f, ptr, depth) ==
    IF depth = 0 \/ ptr.k # "r" THEN ptr
    ELSE LET i == InstById(f, ptr.v)
         IN IF i.op = "gep" THEN StripGEPs(f, i.x, depth - 1) ELSE ptr

getRealPtrValue(f, load) == StripGEPs(f, load.x, SCEVDepth)

\* the instructions using an operand (Value::users)
usersOfOperand(f, op) ==
    {i \in AllInsts(f) :
        \/ i.x = op
        \/ i.y = op
        \/ \E j \in 1..Len(i.inc) : i.inc[j].val = op}

\* the stores the work queue of areDependent reaches from one user: the
\* user itself if it is a store, and the users of every GEP on the way
RECURSIVE StoresReached(_, _, _)
StoresReached(f, insts, depth) ==
    LET stores == {i \in insts : i.op = "store"}
        geps == {i \in insts : i.op = "gep"}
        next == UNION {usersOfOperand(f, R(g.id)) : g \in geps}
    IN IF depth = 0 \/ next = {} THEN stores
       ELSE stores \cup StoresReached(f, next, depth - 1)

areDependent(f, an, L1, L2) ==
    \E load \in fillLoadStoreVectors(f, L2) :
        \E user \in usersOfOperand(f, getRealPtrValue(f, load)) :
            /\ contains(L1, getParent(f, user.id))
            /\ \E SI \in StoresReached(f, {user}, SCEVDepth) :
                  /\ depends(an, SI, load)
                  /\ isNegativeDistance(an, L1, L2, SI, load)

\* the oracle without the trip-count check
isLoopFusionApplicableAnyTrips(f, an, L1, L2) ==
    IF ~areAdjacents(f, L1, L2) THEN FALSE
    ELSE IF ~areCFE(an, L1, L2) THEN FALSE
    ELSE IF areDependent(f, an, L1, L2) THEN FALSE
    ELSE TRUE

isLoopFusionApplicable(f, an, L1, L2) ==
    IF ~areAdjacents(f, L1, L2) THEN FALSE
    ELSE IF ~areCFE(an, L1, L2) THEN FALSE
    ELSE IF ~haveSameItNum(an, L1, L2) THEN FALSE
    ELSE IF areDependent(f, an, L1, L2) THEN FALSE
    ELSE TRUE


(***************************************************************************)
(* Loop fusion application.  Erasing a block or an instruction removes it  *)
(* and leaves the operands that named it in place (they dangle).  Reading  *)
(* a block that was erased, or a null block, is reported as a fault.       *)
(***************************************************************************)
MinOf(S) == CHOOSE x \in S : \A y \in S : x <= y

getFirstBodyBlock(f, L) ==
    LET BB == getHeader(L)
        ss == getTerminator(f, BB).succ
        js == {j \in 1..Len(ss) : contains(L, ss[j]) /\ ss[j] # BB}
    IN IF js = {} THEN Null ELSE ss[MinOf(js)]

getLastBodyBlock(f, L) ==
    LET BB == getLoopLatch(f, L)
        ps == {pred \in predecessors(f, BB) : contains(L, pred) /\ pred # BB}
    IN IF ps = {} THEN Null ELSE MinOf(ps)

\* a phi of the header used by a compare that a conditional branch uses
isInductionPhi(f, i) ==
    /\ i.op = "phi"
    /\ \E CI \in users(f, i.id) :
          /\ CI.op = "icmp"
          /\ \E BI \in users(f, CI.id) : BI.op = "br" /\ Len(BI.succ) = 2

getInductionVariable(f, L) ==
    LET hs == f[getHeader(L)]
        js == {j \in 1..Len(hs) : isInductionPhi(f, hs[j])}
    IN IF js = {} THEN Null ELSE hs[MinOf(js)].id

MoveHeaderInst(f, inst, l1Header, l1termInst) ==
    IF inst.op = "phi"
    THEN IF ~hasNUses0(f, inst.id)
         THEN moveBefore(f, inst.id, l1Header,
                         f[l1Header][getFirstNonPHI(f, l1Header)].id)
         ELSE f
    ELSE moveBefore(f, inst.id, l1Header, l1termInst)

\* the loop over instsToMove in fuseHeader
RECURSIVE MoveHeaderInsts(_, _, _, _, _)
MoveHeaderInsts(f, ids, j, l1Header, l1termInst) ==
    IF j > Len(ids) THEN f
    ELSE MoveHeaderInsts(MoveHeaderInst(f, InstById(f, ids[j]), l1Header, l1termInst),
                         ids, j + 1, l1Header, l1termInst)

RECURSIVE EraseBlocks(_, _)
EraseBlocks(f, S) ==
    IF S = {} THEN f
    ELSE LET b == CHOOSE x \in S : TRUE
         IN EraseBlocks(eraseBlock(f, b), S \ {b})

setSuccessor(f, id, idx, b) ==
    MapInsts(f, LAMBDA i : IF i.id = id THEN [i EXCEPT !.succ[idx + 1] = b] ELSE i)

\* for (BasicBlock *BB : predecessors(l2Header)) if (BB->hasNPredecessors(0))
\* ... eraseFromParent(), then l2Header->eraseFromParent()
EraseHeader(f4, l2Header) ==
    eraseBlock(EraseBlocks(f4, {BB \in predecessors(f4, l2Header) :
                                   predecessors(f4, BB) = {}}),
               l2Header)

MoveTerminator(f1, l1Header, l2Header, l1First, l1termInst, l2termInst) ==
    EraseHeader(
        setSuccessor(eraseInst(moveAfter(f1, l2termInst, l1Header, l1termInst),
                               l1termInst),
                     l2termInst, 0, l1First),
        l2Header)

FuseHeaderAt(f, l1Header, l2Header, l1First, l1termInst, l2termInst) ==
    MoveTerminator(
        MoveHeaderInsts(f, [j \in 1..(Len(f[l2Header]) - 1) |-> f[l2Header][j].id],
                        1, l1Header, l1termInst),
        l1Header, l2Header, l1First, l1termInst, l2termInst)

fuseHeader(f, l1Header, l2Header, l1First) ==
    FuseHeaderAt(f, l1Header, l2Header, l1First,
                 getTerminator(f, l1Header).id, getTerminator(f, l2Header).id)

RECURSIVE MoveAllBefore(_, _, _, _, _)
MoveAllBefore(f, ids, j, b, before) ==
    IF j > Len(ids) THEN f
    ELSE MoveAllBefore(moveBefore(f, ids[j], b, before), ids, j + 1, b, before)

\* the bodies fused with L2's instructions put first
FuseBodiesInFront(f, l1Last, l2First, l1LastTerm) ==
    eraseInst(
        eraseBlock(
            replaceAllUsesWithBlock(
                MoveAllBefore(f, [j \in 1..Len(f[l2First]) |-> f[l2First][j].id],
                              1, l1Last, f[l1Last][1].id),
                l2First, l1Last),
            l2First),
        l1LastTerm)

FuseBodiesAt(f, l1Last, l2First, l1LastTerm) ==
    eraseInst(
        eraseBlock(
            replaceAllUsesWithBlock(
                MoveAllBefore(f, [j \in 1..Len(f[l2First]) |-> f[l2First][j].id],
                              1, l1Last, l1LastTerm),
                l2First, l1Last),
            l2First),
        l1LastTerm)

fuseBodies(f, l1Last, l2First) ==
    FuseBodiesAt(f, l1Last, l2First, getTerminator(f, l1Last).id)

\* id of the branch BranchInst::Create makes in place of terminator t
NewBranchId(t) == t + 5000

\* BranchInst::Create(dest, oldTerm) followed by oldTerm->eraseFromParent()
replaceTerminator(f, b, dest) ==
    [f EXCEPT ![b] = SubSeq(@, 1, Len(@) - 1)
                     \o <<Br(NewBranchId(getTerminator(f, b).id), dest)>>]

Live(f, b) == b # Null /\ b \in DOMAIN f

Done(f) == [f |-> f, fault |-> FALSE]
Fault(f) == [f |-> f, fault |-> TRUE]

\* a branch from the end of L2's body straight to L1's header
LinkHeader(f4, L1, l2Last) ==
    IF ~Live(f4, l2Last) \/ getTerminator(f4, l2Last).id = Null THEN Fault(f4)
    ELSE Done(replaceTerminator(f4, l2Last, getHeader(L1)))

\* Create a branch from the end of L2's body to L1's latch
LinkLatch(f4, L1, l2Last) ==
    IF ~Live(f4, l2Last) \/ getTerminator(f4, l2Last).id = Null THEN Fault(f4)
    ELSE Done(replaceTerminator(f4, l2Last, getLoopLatch(f4, L1)))

\* if (l2First == l2Last) l2Last = l1Last; then fuse the bodies
FuseBodiesOf(f3, L1, l1Last, l2First, l2Last) ==
    IF ~Live(f3, l1Last) \/ ~Live(f3, l2First) \/ getTerminator(f3, l1Last).id = Null
    THEN Fault(f3)
    ELSE LinkLatch(fuseBodies(f3, l1Last, l2First), L1,
                   IF l2First = l2Last THEN l1Last ELSE l2Last)

\* replace L2's latch by L1's latch, then fuse the headers
FuseHeadersOf(f1, L1, L2, l1First, l1Last, l2First, l2Last, l1Latch, l2Latch) ==
    IF ~Live(f1, l2Latch) \/ getTerminator(f1, getHeader(L1)).id = Null
    THEN Fault(f1)
    ELSE FuseBodiesOf(
             fuseHeader(replaceAllUsesWithBlock(f1, l2Latch, l1Latch),
                        getHeader(L1), getHeader(L2), l1First),
             L1, l1Last, l2First, l2Last)

\* a replacement that leaves every use of L2's induction variable in place
KeepInduction(f, inductionVariable, l1InductionVar) == f

\* replace L2's induction variable by L1's
ReplaceInduction(f, inductionVariable, l1InductionVar) ==
    IF inductionVariable # Null /\ l1InductionVar # Null
    THEN replaceAllUsesWithValue(f, inductionVariable, R(l1InductionVar))
    ELSE f

ApplyAt(f1, L1, L2, l1First, l1Last, l2First, l2Last) ==
    FuseHeadersOf(f1, L1, L2, l1First, l1Last, l2First, l2Last,
                  getLoopLatch(f1, L1), getLoopLatch(f1, L2))

\* a fusion that leaves the function as it is
applyNothing(f, L1, L2) == Done(f)

applyLoopFusion(f, L1, L2) ==
    ApplyAt(ReplaceInduction(f, getInductionVariable(f, L2),
                             getInductionVariable(f, L1)),
            L1, L2,
            getFirstBodyBlock(f, L1), getLastBodyBlock(f, L1),
            getFirstBodyBlock(f, L2), getLastBodyBlock(f, L2))

(***************************************************************************)
(* The functions the pass runs on: counted loops over global int arrays,   *)
(* in the shapes of tests/loop.cpp (loops in sequence) and                 *)
(* tests/matrix.cpp (two-level nests).  Loop k owns blocks 10k..10k+3      *)
(* (header, body, latch, exit), an inner loop 10k+5..10k+8; the exit       *)
(* block of a loop is the preheader of the next one.                       *)
(***************************************************************************)
ElemSize == 4        \* sizeof(int)
RowLen == 8          \* elements in a row of a two-dimensional array

\* dst[i + doff] = src[i + soff] + 1, or dst[i + doff] = val when src = 0
Strided(dst, dstr, doff, src, sstr, soff, val) ==
    [dst |-> dst, dstr |-> dstr, doff |-> doff,
     src |-> src, sstr |-> sstr, soff |-> soff, val |-> val]

Stmt(dst, doff, src, soff, val) == Strided(dst, 1, doff, src, 1, soff, val)

\* a counted loop: i = start; i < start + n; ++i, the bound either a
\* literal (known) or a run-time argument; inner is <<>> or one nested loop
LoopSpec(shape, start, n, known, stmts, inner) ==
    [shape |-> shape, start |-> start, n |-> n, known |-> known,
     stmts |-> stmts, inner |-> inner]

Arrays == 1..3

NoRow == C(0 - 1)

\* instructions of statement st at instruction base sb, indexed by iv; in a
\* nest, row is the outer index and a first GEP selects the row
StmtInsts(sb, iv, st, row) ==
    LET src == IF row = NoRow THEN G(st.src) ELSE R(sb + 7)
        dst == IF row = NoRow THEN G(st.dst) ELSE R(sb + 8)
    IN (IF st.src = 0 THEN <<>>
        ELSE (IF row = NoRow THEN <<>>
              ELSE << Gep(sb + 7, G(st.src), row, RowLen * ElemSize) >>)
             \o << Add(sb, iv, C(st.soff)),
                   Gep(sb + 1, src, R(sb), st.sstr * ElemSize),
                   Load(sb + 2, R(sb + 1)),
                   Add(sb + 3, R(sb + 2), C(1)) >>)
       \o (IF row = NoRow THEN <<>>
           ELSE << Gep(sb + 8, G(st.dst), row, RowLen * ElemSize) >>)
       \o << Add(sb + 4, iv, C(st.doff)),
             Gep(sb + 5, dst, R(sb + 4), st.dstr * ElemSize),
             Store(sb + 6, IF st.src = 0 THEN C(st.val) ELSE R(sb + 3), R(sb + 5)) >>

RECURSIVE BodyInsts(_, _, _, _, _)
BodyInsts(ib, iv, stmts, m, row) ==
    IF m > Len(stmts) THEN <<>>
    ELSE StmtInsts(ib + 10 * m, iv, stmts[m], row)
         \o BodyInsts(ib, iv, stmts, m + 1, row)

Bound(spec, arg) == IF spec.known THEN C(spec.start + spec.n) ELSE A(arg)

\* for (i = start; i < bound; ++i) body
ForLoop(bb, ib, spec, arg, pre, body, exitInsts) ==
    (bb :> << Phi(ib + 1, <<In(C(spec.start), pre), In(R(ib + 2), bb + 2)>>),
              ICmp(ib + 3, R(ib + 1), Bound(spec, arg)),
              CondBr(ib + 4, R(ib + 3), bb + 1, bb + 3) >>)
    @@ (bb + 1 :> body)
    @@ (bb + 2 :> << Add(ib + 2, R(ib + 1), C(1)), Br(ib + 5, bb) >>)
    @@ (bb + 3 :> exitInsts)

\* do body while (++i < bound)
DoLoop(bb, ib, spec, arg, pre, body, exitInsts) ==
    (bb :> << Phi(ib + 1, <<In(C(spec.start), pre), In(R(ib + 2), bb + 2)>>) >>
           \o SubSeq(body, 1, Len(body) - 1) \o << Br(ib + 4, bb + 2) >>)
    @@ (bb + 2 :> << Add(ib + 2, R(ib + 1), C(1)),
                     ICmp(ib + 3, R(ib + 2), Bound(spec, arg)),
                     CondBr(ib + 5, R(ib + 3), bb, bb + 3) >>)
    @@ (bb + 3 :> exitInsts)

\* a for loop whose body is two blocks, one statement in each
SplitLoop(bb, ib, spec, arg, pre, exitInsts) ==
    ForLoop(bb, ib, spec, arg, pre,
            StmtInsts(ib + 10, R(ib + 1), spec.stmts[1], NoRow) \o << Br(ib + 6, bb + 4) >>,
            exitInsts)
    @@ (bb + 4 :> StmtInsts(ib + 20, R(ib + 1), spec.stmts[2], NoRow)
                  \o << Br(ib + 8, bb + 2) >>)

\* for (i = start; !(bound - 1 < i); ++i) body: the header branches to the
\* exit when its compare holds and to the body when it does not
InvertedLoop(bb, ib, spec, arg, pre, body, exitInsts) ==
    [ForLoop(bb, ib, spec, arg, pre, body, exitInsts) EXCEPT ![bb] =
        << @[1],
           ICmp(ib + 3, C(spec.start + spec.n - 1), R(ib + 1)),
           CondBr(ib + 4, R(ib + 3), bb + 3, bb + 1) >>]

\* s = 0; for (i = start; i < bound; ++i) { body; s = s + 1; }: the header
\* holds a second phi, the running sum, after the induction phi
SumLoop(bb, ib, spec, arg, pre, exitInsts) ==
    LET counted == ForLoop(bb, ib, spec, arg, pre,
                           BodyInsts(ib, R(ib + 1), spec.stmts, 1, NoRow)
                           \o << Add(ib + 9, R(ib + 8), C(1)), Br(ib + 6, bb + 2) >>,
                           exitInsts)
    IN [counted EXCEPT ![bb] =
            << @[1], Phi(ib + 8, << In(C(0), pre), In(R(ib + 9), bb + 2) >>) >>
            \o SubSeq(@, 2, Len(@))]

\* p = &dst[k] before the loop, k an argument of the function (argument 0);
\* for (i = start; i < bound; ++i) *p = val
HoistedAddress(ib, spec) ==
    IF spec.shape = "hoist"
    THEN << Gep(ib + 9, G(spec.stmts[1].dst), A(0), ElemSize) >>
    ELSE <<>>

HoistLoop(bb, ib, spec, arg, pre, exitInsts) ==
    ForLoop(bb, ib, spec, arg, pre,
            << Store(ib + 16, C(spec.stmts[1].val), R(ib + 9)), Br(ib + 6, bb + 2) >>,
            exitInsts)

\* loop number k of the function, its exit falling through to loop k + 1
BuildLoop(k, spec, last) ==
    LET bb == 10 * k
        ib == 100 * k
        exitInsts == IF last THEN << Ret(ib + 7) >> ELSE << Br(ib + 7, bb + 10) >>
        flat == BodyInsts(ib, R(ib + 1), spec.stmts, 1, NoRow)
                \o << Br(ib + 6, bb + 2) >>
    IN IF spec.inner = <<>>
       THEN IF spec.shape = "for"
            THEN ForLoop(bb, ib, spec, k, bb - 7, flat, exitInsts)
            ELSE IF spec.shape = "split"
            THEN SplitLoop(bb, ib, spec, k, bb - 7, exitInsts)
            ELSE IF spec.shape = "inverted"
            THEN InvertedLoop(bb, ib, spec, k, bb - 7, flat, exitInsts)
            ELSE IF spec.shape = "sum"
            THEN SumLoop(bb, ib, spec, k, bb - 7, exitInsts)
            ELSE IF spec.shape = "hoist"
            THEN HoistLoop(bb, ib, spec, k, bb - 7, exitInsts)
            ELSE DoLoop(bb, ib, spec, k, bb - 7, flat, exitInsts)
       ELSE LET in == spec.inner[1]
                body == BodyInsts(ib + 50, R(ib + 51), in.stmts, 1, R(ib + 1))
                        \o << Br(ib + 56, bb + 7) >>
            IN ForLoop(bb, ib, spec, k, bb - 7, << Br(ib + 6, bb + 5) >>, exitInsts)
               @@ ForLoop(bb + 5, ib + 50, in, k + 5, bb + 1, body,
                          << Br(ib + 57, bb + 2) >>)

RECURSIVE BuildLoops(_, _)
BuildLoops(prog, k) ==
    IF k > Len(prog) THEN (EntryBlock :> HoistedAddress(100, prog[1]) \o << Br(7, 10) >>)
    ELSE BuildLoop(k, prog[k], k = Len(prog)) @@ BuildLoops(prog, k + 1)

BuildFn(prog) == BuildLoops(prog, 1)

\* run-time value of argument k: the bound of loop k (k + 5: its inner loop)
ArgVal(prog, k) ==
    IF k \in 1..Len(prog) THEN prog[k].start + prog[k].n
    ELSE IF (k - 5) \in 1..Len(prog) /\ prog[k - 5].inner # <<>>
    THEN prog[k - 5].inner[1].start + prog[k - 5].inner[1].n
    ELSE 0


(***************************************************************************)
(* Reference semantics of the IR: what running the function leaves in      *)
(* memory.  Used to compare a function before and after a fusion.          *)
(***************************************************************************)
Fuel == 40 * (MaxTrip + 1)      \* blocks executed before a run is cut off

ArrayBase(g) == 1000 * g
InitMem(a) == a                  \* every cell starts with a value of its own
Read(mem, a) == IF a \in DOMAIN mem THEN mem[a] ELSE InitMem(a)

Defined(op, regs) == op.k # "r" \/ op.v \in DOMAIN regs

Val(op, regs, prog) ==
    CASE op.k = "c" -> op.v
      [] op.k = "r" -> regs[op.v]
      [] op.k = "g" -> ArrayBase(op.v)
      [] op.k = "a" -> ArgVal(prog, op.v)

IncomingFrom(phi, prev) == {j \in 1..Len(phi.inc) : phi.inc[j].blk = prev}

\* the phis of a block read their incoming values together, on entry
EvalPhis(s, prev, regs, prog) ==
    LET phis == {j \in 1..Len(s) : s[j].op = "phi"}
        ok == \A j \in phis :
                 /\ IncomingFrom(s[j], prev) # {}
                 /\ \A m \in IncomingFrom(s[j], prev) : Defined(s[j].inc[m].val, regs)
        new == [id \in {s[j].id : j \in phis} |->
                   LET phi == CHOOSE i \in Range(s) : i.id = id
                       m == CHOOSE n \in IncomingFrom(phi, prev) : TRUE
                   IN Val(phi.inc[m].val, regs, prog)]
    IN [ok |-> ok, regs |-> IF ok THEN new @@ regs ELSE regs]

RECURSIVE RunInsts(_, _, _, _)
RunInsts(s, j, st, prog) ==
    IF j > Len(s) \/ ~st.ok THEN st
    ELSE LET i == s[j]
         IN IF i.op = "phi" \/ isTerminator(i) THEN RunInsts(s, j + 1, st, prog)
            ELSE IF ~Defined(i.x, st.regs) \/ ~Defined(i.y, st.regs)
            THEN [st EXCEPT !.ok = FALSE]
            ELSE LET x == Val(i.x, st.regs, prog)
                     y == Val(i.y, st.regs, prog)
                     r == CASE i.op = "add" -> x + y
                            [] i.op = "icmp" -> IF x < y THEN 1 ELSE 0
                            [] i.op = "gep" -> x + i.s * y
                            [] i.op = "load" -> Read(st.mem, x)
                            [] OTHER -> 0
                 IN IF i.op = "store"
                    THEN RunInsts(s, j + 1, [st EXCEPT !.mem = (y :> x) @@ @], prog)
                    ELSE RunInsts(s, j + 1, [st EXCEPT !.regs = (i.id :> r) @@ @], prog)

RECURSIVE RunBlock(_, _, _, _, _, _, _)
Branch(f, prog, b, st, t, fuel) ==
    IF ~st.ok \/ t.id = Null \/ ~Defined(t.x, st.regs)
    THEN [st |-> "invalid", mem |-> st.mem]
    ELSE IF t.op = "ret" THEN [st |-> "ret", mem |-> st.mem]
    ELSE RunBlock(f, prog,
                  IF Len(t.succ) = 1 \/ Val(t.x, st.regs, prog) # 0
                  THEN t.succ[1] ELSE t.succ[2],
                  b, st.regs, st.mem, fuel - 1)

Enter(f, prog, b, ph, mem, fuel) ==
    Branch(f, prog, b,
           RunInsts(f[b], 1, [ok |-> ph.ok, regs |-> ph.regs, mem |-> mem], prog),
           getTerminator(f, b), fuel)

RunBlock(f, prog, b, prev, regs, mem, fuel) ==
    IF b \notin DOMAIN f THEN [st |-> "invalid", mem |-> mem]
    ELSE IF fuel = 0 THEN [st |-> "cutoff", mem |-> mem]
    ELSE Enter(f, prog, b, EvalPhis(f[b], prev, regs, prog), mem, fuel)

Exec(f, prog) == RunBlock(f, prog, EntryBlock, Null, <<>>, <<>>, Fuel)

SameMemory(r1, r2) ==
    \A a \in (DOMAIN r1.mem) \cup (DOMAIN r2.mem) : Read(r1.mem, a) = Read(r2.mem, a)


(***************************************************************************)
(* Profitability check of the gated variant of the pass.                   *)
(***************************************************************************)
fillMemoryVector(f, L) ==
    {i \in UNION {Range(f[b]) : b \in L.blocks \cap DOMAIN f} :
        i.op \in {"load", "store"}}

canExploitSpatialLocality(base_delta, stride_delta) ==
    /\ base_delta.const
    /\ stride_delta.const
    /\ base_delta.v + stride_delta.v <= CACHE_LINE_DIM

ExploitableBetween(inst1_add_rec, inst2_add_rec) ==
    /\ inst1_add_rec.rec /\ inst2_add_rec.rec
    /\ inst1_add_rec.base = inst2_add_rec.base
    /\ canExploitSpatialLocality(
           getConstDelta(inst1_add_rec.start, inst2_add_rec.start),
           Const(inst1_add_rec.step - inst2_add_rec.step))

checkSpatialLocalityUsage(an, L1, L2, l1Insts, l2Insts) ==
    Cardinality({pr \in l1Insts \X l2Insts :
        /\ depends(an, pr[1], pr[2])
        /\ ExploitableBetween(getSCEVAddRec(an, pr[1], L1),
                              getSCEVAddRec(an, pr[2], L2))})

Score(spatial_locality_score, tripCountL1) ==
    spatial_locality_score + (IF tripCountL1 > MIN_TRIP_COUNT THEN 1 ELSE 0)

isProfitable(an, L1, L2, l1MemoryInsts, l2MemoryInsts) ==
    Score(checkSpatialLocalityUsage(an, L1, L2, l1MemoryInsts, l2MemoryInsts),
          tripCount(an, getHeader(L1))) > 0

(***************************************************************************)
(* The analysis manager: results are computed on demand from the current   *)
(* function and cached until invalidated.                                  *)
(***************************************************************************)
NoAM == [valid |-> FALSE]

\* a reachable branch to a block that was erased
Dangling(f) == \E b \in Reachable(f) : ~(successors(f, b) \subseteq DOMAIN f)

\* the blocks of BS that a dominates: those the entry does not reach
\* without a
Dominated(f, BS, a) ==
    {a} \cup (BS \ Closure(f, ({EntryBlock} \cap DOMAIN f) \ {a}, {a}, FALSE))

\* the blocks of BS that a post-dominates: those that reach no return
\* without a
PostDominated(f, BS, a) ==
    {a} \cup (BS \ Closure(f, ExitBlocks(f) \ {a}, {a}, TRUE))

AnalysedWith(f, di, gen, LS, BS) ==
    [valid |-> TRUE,
     LI |-> LS,
     DT |-> UNION {{a} \X Dominated(f, BS, a) : a \in BS},
     PDT |-> UNION {{a} \X PostDominated(f, BS, a) : a \in BS},
     SE |-> [trip |-> [h \in {L.header : L \in Range(LS)} |->
                          getSmallConstantTripCount(f, Range(LS), LoopOf(f, h))],
             scev |-> PointerSCEVs(f, Range(LS))],
     DI |-> di,
     gen |-> gen]

Analyse(f, di, gen) == AnalysedWith(f, di, gen, getLoopsInPreorder(f), Reachable(f))

\* AM.getResult: the cached result if there is one
getResult(cache, f, di, gen) == IF cache.valid THEN cache ELSE Analyse(f, di, gen)

\* an invalidation that keeps the cached results
invalidateNothing(cache) == cache

\* AM.invalidate(F, PreservedAnalyses::none())
invalidate(cache) == NoAM


(***************************************************************************)
(* The programs the pass is run on.                                        *)
(***************************************************************************)
FarOff == 32         \* result_b[i] = source_data[i - 32] + 5 of tests/loop.cpp
FusionCap == 6       \* no run applies more fusions than this

Offs == (0 - MaxOff)..MaxOff
Trips == 1..MaxTrip

Flat(shape, start, n, known, st) == LoopSpec(shape, start, n, known, <<st>>, <<>>)
Nest(no, ni, st) ==
    LoopSpec("for", 0, no, TRUE, <<>>,
             << LoopSpec("for", 0, ni, TRUE, <<st>>, <<>>) >>)

\* first loop: a[i] = 1 or a[i] = b[i + o] + 1
Stmts1 == {Stmt(1, 0, 0, 0, 1)} \cup {Stmt(1, 0, 2, o, 1) : o \in Offs}

\* second loop: c[i] = a[i + o] + 1, b[i + o] = 2, a[i + o] = 2 or c[i] = 2
Stmts2 ==
    {Stmt(3, 0, 1, o, 2) : o \in Offs \cup {0 - FarOff}}
    \cup {Stmt(2, o, 0, 0, 2) : o \in Offs \cup {FarOff}}
    \cup {Stmt(1, o, 0, 0, 2) : o \in Offs}
    \cup {Stmt(3, 0, 0, 0, 2)}

\* two loops of MaxTrip iterations, every access pattern
MemPrograms ==
    {<< Flat("for", 0, MaxTrip, TRUE, s1), Flat("for", 0, MaxTrip, TRUE, s2) >> :
        s1 \in Stmts1, s2 \in Stmts2}

\* two loops on unrelated arrays, every shape and trip count
ShapePrograms ==
    {<< Flat(sh[1], 0, n[1], TRUE, Stmt(1, 0, 0, 0, 1)),
        Flat(sh[2], 0, n[2], TRUE, Stmt(3, 0, 0, 0, 2)) >> :
        sh \in {"for", "do"} \X {"for", "do"}, n \in Trips \X Trips}

\* bounds known at compile time or not, and a second loop starting at 1
BoundPrograms ==
    {<< Flat("for", 0, n[1], kn[1], Stmt(1, 0, 0, 0, 1)),
        Flat("for", st, n[2], kn[2], Stmt(3, 0, 0, 0, 2)) >> :
        n \in {MaxTrip - 1, MaxTrip} \X {MaxTrip - 1, MaxTrip},
        kn \in BOOLEAN \X BOOLEAN, st \in {0, 1}}

\* three loops in sequence
ChainPrograms ==
    {<< Flat("for", 0, n[1], TRUE, Stmt(1, 0, 0, 0, 1)),
        Flat("for", 0, n[2], TRUE, Stmt(2, 0, 0, 0, 2)),
        Flat("for", 0, n[3], TRUE, Stmt(3, 0, 0, 0, 3)) >> :
        n \in {MaxTrip - 1, MaxTrip} \X {MaxTrip - 1, MaxTrip} \X {MaxTrip - 1, MaxTrip}}

\* bodies of one block or of two: a[i] = 1 (; b[i] = 1), then c[i] = 2
\* (; c[i] = a[i] + 1)
Whole(n, st) == LoopSpec("for", 0, n, TRUE, <<st>>, <<>>)
Split(n, st1, st2) == LoopSpec("split", 0, n, TRUE, <<st1, st2>>, <<>>)

SplitPrograms ==
    {<< l1, l2 >> :
        l1 \in {Whole(MaxTrip, Stmt(1, 0, 0, 0, 1)),
                Split(MaxTrip, Stmt(1, 0, 0, 0, 1), Stmt(2, 0, 0, 0, 1))},
        l2 \in {Whole(MaxTrip, Stmt(3, 0, 0, 0, 2)),
                Split(MaxTrip, Stmt(3, 0, 0, 0, 2), Stmt(3, 0, 1, 0, 2))}}

\* a[dstr * i] = 1, then c[i] = a[sstr * (i + o)] + 1
MaxStride == 2
Strides == 1..MaxStride

StridePrograms ==
    {<< Flat("for", 0, MaxTrip, TRUE, Strided(1, d, 0, 0, 1, 0, 1)),
        Flat("for", 0, MaxTrip, TRUE, Strided(3, 1, 0, 1, s, o, 2)) >> :
        d \in Strides, s \in Strides, o \in Offs}

\* descending accesses: a[n - i] = 1, then c[i] = a[n - i - o] + 1
Descending(n, o) == o - n

DescendingPrograms ==
    {<< Flat("for", 0, MaxTrip, TRUE,
             Strided(1, 0 - 1, Descending(MaxTrip, 0), 0, 1, 0, 1)),
        Flat("for", 0, MaxTrip, TRUE,
             Strided(3, 1, 0, 1, 0 - 1, Descending(MaxTrip, o), 2)) >> :
        o \in Offs}

\* p = &a[k]; *p = 1 in the first loop, then c[i] = a[i + o] + 1
HoistPrograms ==
    {<< Flat("hoist", 0, MaxTrip, TRUE, Stmt(1, 0, 0, 0, 1)),
        Flat("for", 0, MaxTrip, TRUE, Stmt(3, 0, 1, o, 2)) >> : o \in Offs}

\* a[i] = 1, then a second loop that also keeps a running sum
SumPrograms ==
    {<< Flat("for", 0, MaxTrip, TRUE, Stmt(1, 0, 0, 0, 1)),
        Flat("sum", 0, MaxTrip, TRUE, Stmt(3, 0, src, 0, 2)) >> : src \in {0, 1}}

\* a[i] = 1, then c[i] = 2, the header of either loop branching to its
\* body first or to its exit first
InvertedPrograms ==
    {<< Flat(sh[1], 0, MaxTrip, TRUE, Stmt(1, 0, 0, 0, 1)),
        Flat(sh[2], 0, MaxTrip, TRUE, Stmt(3, 0, 0, 0, 2)) >> :
        sh \in {"for", "inverted"} \X {"for", "inverted"}}

\* loops whose trip count is MIN_TRIP_COUNT or one more
LongPrograms ==
    {<< Flat("for", 0, n, TRUE, Stmt(1, 0, 0, 0, 1)),
        Flat("for", 0, n, TRUE, Stmt(3, 0, 0, 0, 2)) >> :
        n \in {MIN_TRIP_COUNT - 1, MIN_TRIP_COUNT}}

\* two two-level nests (tests/matrix.cpp): a[i][j] = 1, then
\* c[i][j] = src[i][j] + 1 with src the array b or the array a
NestPrograms ==
    {<< Nest(2, n[1], Stmt(1, 0, 0, 0, 1)), Nest(2, n[2], Stmt(3, 0, src, 0, 2)) >> :
        n \in {MaxTrip - 1, MaxTrip} \X {MaxTrip - 1, MaxTrip}, src \in {1, 2}}

Programs ==
    MemPrograms \cup ShapePrograms \cup BoundPrograms \cup ChainPrograms
    \cup NestPrograms \cup SplitPrograms \cup StridePrograms
    \cup DescendingPrograms \cup HoistPrograms \cup LongPrograms
    \cup SumPrograms \cup InvertedPrograms

(***************************************************************************)
(* LoopFusion::run.                                                        *)
(***************************************************************************)
VARIABLES
    prog,                \* the source program the function was built from
    fn,                  \* the function F
    fnPrev,              \* F as it was before the latest applyLoopFusion
    am,                  \* the analysis manager's cached results
    loops,               \* the vector loops of the current scan
    i, j,                \* positions of first_it and second_it in loops
    pc,                  \* where run is
    isLoopFusionApplied,
    fusionCount,
    ProfitabilityCheck,  \* the -profitability-check option
    diMode,              \* precision of DependenceInfo in this run
    profitable,          \* what the last profitability check printed
    verdict              \* what the structural checks said of a pair of loops

vars == << prog, fn, fnPrev, am, loops, i, j, pc, isLoopFusionApplied,
           fusionCount, ProfitabilityCheck, diMode, profitable, verdict >>

NoVerdict == [checked |-> FALSE, adjacent |-> FALSE, cfe |-> FALSE]

Init ==
    /\ prog \in Programs
    /\ fn = BuildFn(prog)
    /\ fnPrev = fn
    /\ am = NoAM
    /\ loops = <<>>
    /\ i = 1
    /\ j = 2
    /\ pc = "top"
    /\ isLoopFusionApplied = FALSE
    /\ fusionCount = 0
    /\ ProfitabilityCheck \in BOOLEAN
    /\ diMode \in {"may", "exact"}
    /\ profitable = "unset"
    /\ verdict = NoVerdict

\* an iterator step that passes over a loop
nextButOne(it) == it + 2

\* std::next(it), ++it
std_next(it) == it + 1

\* a guard that lets every checked pair through
fusionGuardAlways(applicable) == TRUE

\* the condition under which run calls applyLoopFusion on a checked pair
fusionGuard(applicable) == applicable

\* do { isLoopFusionApplied = false; updateLoopInfo(...); loops = ...
UpdateLoopInfo ==
    /\ pc = "top"
    /\ IF ~am.valid /\ Dangling(fn)
       THEN /\ pc' = "fault"
            /\ UNCHANGED << am, loops, i, j, isLoopFusionApplied >>
       ELSE /\ am' = getResult(am, fn, diMode, fusionCount)
            /\ loops' = am'.LI
            /\ i' = 1
            /\ j' = std_next(1)
            /\ isLoopFusionApplied' = FALSE
            /\ pc' = "scan"
    /\ UNCHANGED << verdict, prog, fn, fnPrev, fusionCount, ProfitabilityCheck, diMode,
                    profitable >>

\* if (isLoopFusionApplicable(*L1, *L2, ...)) ... else ++second_it
CheckPair ==
    /\ pc = "scan"
    /\ i <= Len(loops)
    /\ j <= Len(loops)
    /\ IF fusionGuard(isLoopFusionApplicable(fn, am, loops[i], loops[j]))
       THEN /\ pc' = IF ProfitabilityCheck THEN "profit" ELSE "apply"
            /\ j' = j
       ELSE /\ pc' = pc
            /\ j' = std_next(j)
    /\ UNCHANGED << verdict, prog, fn, fnPrev, am, loops, i, isLoopFusionApplied,
                    fusionCount, ProfitabilityCheck, diMode, profitable >>

\* the inner for ends: ++first_it, second_it = std::next(first_it)
NextFirst ==
    /\ pc = "scan"
    /\ i <= Len(loops)
    /\ j > Len(loops)
    /\ i' = std_next(i)
    /\ j' = std_next(std_next(i))
    /\ UNCHANGED << verdict, prog, fn, fnPrev, am, loops, pc, isLoopFusionApplied,
                    fusionCount, ProfitabilityCheck, diMode, profitable >>

\* the outer for ends without a fusion
ScanDone ==
    /\ pc = "scan"
    /\ i > Len(loops)
    /\ pc' = "after"
    /\ UNCHANGED << verdict, prog, fn, fnPrev, am, loops, i, j, isLoopFusionApplied,
                    fusionCount, ProfitabilityCheck, diMode, profitable >>

\* if (ProfitabilityCheck) { ... isProfitable(...) ... printed ... }
CheckProfit ==
    /\ pc = "profit"
    /\ profitable' =
          IF isProfitable(am, loops[i], loops[j],
                          fillMemoryVector(fn, loops[i]), fillMemoryVector(fn, loops[j]))
          THEN "yes" ELSE "no"
    /\ pc' = "apply"
    /\ UNCHANGED << verdict, prog, fn, fnPrev, am, loops, i, j, isLoopFusionApplied,
                    fusionCount, ProfitabilityCheck, diMode >>

\* what run does with the outcome of applyLoopFusion
Applied(r) ==
    /\ fn' = r.f
    /\ fnPrev' = fn
    /\ IF r.fault
       THEN /\ pc' = "fault"
            /\ UNCHANGED << fusionCount, isLoopFusionApplied >>
       ELSE /\ pc' = "after"
            /\ fusionCount' = fusionCount + 1
            /\ isLoopFusionApplied' = TRUE

\* applyLoopFusion(*L1, *L2); fusionCount++; isLoopFusionApplied = true; break
ApplyFusion ==
    /\ pc = "apply"
    /\ fusionCount < FusionCap
    /\ Applied(applyLoopFusion(fn, loops[i], loops[j]))
    /\ UNCHANGED << verdict, prog, am, loops, i, j, ProfitabilityCheck, diMode, profitable >>

\* a do-while that never goes round again
scanOnce(applied) == FALSE

\* } while (isLoopFusionApplied);
scanAgain(applied) == applied

\* if (isLoopFusionApplied) AM.invalidate(...); and round the do-while again
Invalidate ==
    /\ pc = "after"
    /\ isLoopFusionApplied
    /\ am' = invalidate(am)
    /\ pc' = IF scanAgain(isLoopFusionApplied) THEN "top" ELSE "done"
    /\ UNCHANGED << verdict, prog, fn, fnPrev, loops, i, j, isLoopFusionApplied,
                    fusionCount, ProfitabilityCheck, diMode, profitable >>

\* while (isLoopFusionApplied) fails: return
Finish ==
    /\ pc = "after"
    /\ ~isLoopFusionApplied
    /\ pc' = "done"
    /\ UNCHANGED << verdict, prog, fn, fnPrev, am, loops, i, j, isLoopFusionApplied,
                    fusionCount, ProfitabilityCheck, diMode, profitable >>

Next ==
    \/ UpdateLoopInfo
    \/ CheckPair
    \/ NextFirst
    \/ ScanDone
    \/ CheckProfit
    \/ ApplyFusion
    \/ Invalidate
    \/ Finish

Spec == Init /\ [][Next]_vars

\* ---- the structural checks on control-flow graphs ----

\* blocks of a graph besides the entry block and the returning block
GraphBlocks == 3

Node(k) == 10 * k
RetBlock == Node(GraphBlocks + 1)

\* a branch, or a conditional branch on a value known at run time
TermInst(b, ts) ==
    IF Len(ts) = 1 THEN Br(b + 1, ts[1]) ELSE CondBr(b + 1, A(b), ts[1], ts[2])

Graph(ts) ==
    (EntryBlock :> << Br(EntryBlock + 1, Node(1)) >>)
    @@ [b \in {Node(k) : k \in 1..GraphBlocks} |-> << TermInst(b, ts[b \div 10]) >>]
    @@ (RetBlock :> << Ret(RetBlock + 1) >>)

\* the blocks a terminator may name when the blocks up to Node(seen) have
\* been named: one of those, the next one, or the returning block
Targets(seen) ==
    {Node(k) : k \in 1..(IF seen < GraphBlocks THEN seen + 1 ELSE seen)} \cup {RetBlock}

Named(seen, t) == IF t = Node(seen + 1) /\ seen < GraphBlocks THEN seen + 1 ELSE seen

Terminators(seen) ==
    {<< t >> : t \in Targets(seen)}
    \cup UNION {{<< t, e >> : e \in Targets(Named(seen, t)) \ {t}} : t \in Targets(seen)}

NamedBy(seen, ts) ==
    IF Len(ts) = 1 THEN Named(seen, ts[1]) ELSE Named(Named(seen, ts[1]), ts[2])

\* the terminators of the blocks, each block numbered in the order in which
\* the blocks before it first name it, so that the entry block reaches all
RECURSIVE Terminated(_, _)
Terminated(ts, seen) ==
    IF Len(ts) = GraphBlocks THEN {ts}
    ELSE IF seen <= Len(ts) THEN {}
    ELSE UNION {Terminated(Append(ts, t), NamedBy(seen, t)) : t \in Terminators(seen)}

\* the graphs all of whose blocks the entry block reaches
Graphs == {g \in {Graph(ts) : ts \in Terminated(<< >>, 1)} : Reachable(g) = DOMAIN g}

\* the two targets of a conditional branch, in either order
Ordered(flip, t, e) == IF flip THEN << e, t >> ELSE << t, e >>

\* a rotated loop of one block behind a guard: guard g, preheader, loop,
\* exit block, the guard skipping to the block the exit block leads to
GuardedLoop(g, after, flipGuard, flipLatch) ==
    (g :> << TermInst(g, Ordered(flipGuard, g + 10, after)) >>)
    @@ (g + 10 :> << TermInst(g + 10, << g + 20 >>) >>)
    @@ (g + 20 :> << TermInst(g + 20, Ordered(flipLatch, g + 20, g + 30)) >>)
    @@ (g + 30 :> << TermInst(g + 30, << after >>) >>)

\* a loop of one block with preheader p and no guard
UnguardedLoop(p, after) ==
    (p :> << TermInst(p, << p + 10 >>) >>)
    @@ (p + 10 :> << TermInst(p + 10, << p + 10, after >>) >>)

\* a guarded loop followed by a second loop, guarded or not
GuardedGraphs ==
    {(EntryBlock :> << Br(EntryBlock + 1, Node(1)) >>)
     @@ GuardedLoop(Node(1), Node(5), fg, fl) @@ second :
        fg \in BOOLEAN, fl \in BOOLEAN,
        second \in {UnguardedLoop(Node(5), Node(7)) @@ (Node(7) :> << Ret(Node(7) + 1) >>)}
                   \cup {GuardedLoop(Node(5), Node(9), fg2, FALSE)
                          @@ (Node(9) :> << Ret(Node(9) + 1) >>) : fg2 \in BOOLEAN}}

GraphInit ==
    /\ prog = << >>
    /\ fn \in Graphs \cup GuardedGraphs
    /\ fnPrev = fn
    /\ am = NoAM
    /\ loops = << >>
    /\ i = 1
    /\ j = 2
    /\ pc = "top"
    /\ isLoopFusionApplied = FALSE
    /\ fusionCount = 0
    /\ ProfitabilityCheck = FALSE
    /\ diMode = "exact"
    /\ profitable = "unset"
    /\ verdict = NoVerdict

\* areAdjacents(L1, L2) and areCFE(L1, L2, DT, PDT) on two loops of the function,
\* once
CheckStructure ==
    /\ pc = "scan"
    /\ ~verdict.checked
    /\ \E a \in 1..Len(loops), b \in 1..Len(loops) :
          /\ a # b
          /\ i' = a
          /\ j' = b
          /\ verdict' = [checked |-> TRUE,
                         adjacent |-> areAdjacents(fn, loops[a], loops[b]),
                         cfe |-> areCFE(am, loops[a], loops[b])]
    /\ UNCHANGED << prog, fn, fnPrev, am, loops, pc, isLoopFusionApplied,
                    fusionCount, ProfitabilityCheck, diMode, profitable >>

GraphNext ==
    \/ UpdateLoopInfo
    \/ CheckStructure

GraphSpec == GraphInit /\ [][GraphNext]_vars

\* run has a next step: it has not returned and has not aborted (the guards
\* of the actions above, taken together)
Running ==
    /\ pc \in {"top", "scan", "profit", "apply", "after"}
    /\ pc = "apply" => fusionCount < FusionCap

\* run is a sequential procedure: it takes its next step whenever it has
\* one.  This is WF_vars(Next), []<>~ENABLED <<Next>>_vars \/ []<><<Next>>_vars,
\* with the enabling condition of Next written out as Running.
FairSpec == Spec /\ ([]<>~Running \/ []<><<Next>>_vars)


(***************************************************************************)
(* Properties.                                                             *)
(***************************************************************************)
Scanning == pc = "scan" /\ am.valid
Positions == 1..Len(loops)
Stopped == pc \in {"done", "fault"}
JustFused == pc = "after" /\ isLoopFusionApplied

\* the four legality properties of a pair, each evaluated on its own
Verdicts(f, an, L1, L2) ==
    << areAdjacents(f, L1, L2), areCFE(an, L1, L2), haveSameItNum(an, L1, L2),
       ~areDependent(f, an, L1, L2) >>

AllHold(v) == \A k \in 1..Len(v) : v[k]

\* two for loops over the same iteration space
SameSpace ==
    /\ Len(prog) = 2
    /\ prog[1].inner = <<>> /\ prog[2].inner = <<>>
    /\ prog[1].shape = "for" /\ prog[2].shape = "for"
    /\ prog[1].known /\ prog[2].known
    /\ prog[1].start = prog[2].start /\ prog[1].n = prog[2].n

MemoryKept(before, after) == after.st = "ret" /\ SameMemory(before, after)

\* C1: whenever the oracle accepted a pair of loops over the same iteration
\* space and the pair was fused, running the fused function leaves the
\* memory that running the function before the fusion (first loop to
\* completion, then the second) leaves.
C1_FusionKeepsMemory ==
    (JustFused /\ SameSpace /\ Exec(fnPrev, prog).st = "ret")
        => MemoryKept(Exec(fnPrev, prog), Exec(fn, prog))

\* C2: for every ordered pair of loops of a scan, isLoopFusionApplicable
\* answers true exactly when the pair is adjacent, control-flow equivalent,
\* of equal trip count and free of forbidden dependences; the four are
\* evaluated independently of one another here, so no order matters.
C2_OracleIsConjunction ==
    Scanning =>
        \A a \in Positions : \A b \in Positions :
            isLoopFusionApplicable(fn, am, loops[a], loops[b])
                = AllHold(Verdicts(fn, am, loops[a], loops[b]))

\* a pair the oracle rejects for its dependence alone
C2_Witness ==
    /\ Scanning /\ i \in Positions /\ j \in Positions
    /\ Verdicts(fn, am, loops[i], loops[j]) = <<TRUE, TRUE, TRUE, FALSE>>
    /\ ~isLoopFusionApplicable(fn, am, loops[i], loops[j])

TripsNow(L) == getSmallConstantTripCount(fn, Range(loops), L)

TripsAgree(L1, L2, t1, t2) ==
    /\ haveSameItNum(am, L1, L2) => (t1 # 0 /\ t2 # 0 /\ t1 = t2)
    /\ (t1 = 0 \/ t2 = 0 \/ t1 # t2) =>
           (~haveSameItNum(am, L1, L2) /\ ~isLoopFusionApplicable(fn, am, L1, L2))

StoreThenLoad(o) ==
    /\ SameSpace
    /\ prog[1].stmts[1].dst = 1 /\ prog[1].stmts[1].doff = 0
    /\ prog[2].stmts[1].src = 1 /\ prog[2].stmts[1].soff = o
    /\ prog[1].stmts[1].dstr = 1 /\ prog[2].stmts[1].sstr = 1

StoreOf(L) == CHOOSE x \in fillMemoryVector(fn, L) : x.op = "store"
LoadOf(L) == CHOOSE x \in fillMemoryVector(fn, L) : x.op = "load"

\* DependenceInfo reports a dependence from the store of L1 to the load of L2
DependenceReported(L1, L2) == depends(am, StoreOf(L1), LoadOf(L2))

FirstPair == Scanning /\ fusionCount = 0 /\ Len(loops) = 2

TwinNests ==
    /\ prog \in NestPrograms
    /\ prog[1].inner[1].n = prog[2].inner[1].n
    /\ prog[2].inner[1].stmts[1].src = 2

StoredArrays(f, s) ==
    [k \in 1..Len(SelectSeq(s, LAMBDA x : x.op = "store")) |->
        getSCEV(f, {}, SelectSeq(s, LAMBDA x : x.op = "store")[k].y, SCEVDepth).base]

\* one nest of two loops whose innermost body stores to a, then to c
SingleNest(f, LS) ==
    /\ Len(LS) = 2
    /\ Nested(LS[2], LS[1])
    /\ \E b \in LS[2].blocks :
          /\ StoredArrays(f, f[b]) = <<1, 3>>
          /\ \A c \in (DOMAIN f) \ {b} : StoredArrays(f, f[c]) = <<>>

\* C5: for two adjacent nests with identical constant bounds, the second
\* loading only from an array the first does not store to, the oracle
\* accepts the outer pair, the run does not fault, and at the fixed point
\* the function is one nest whose innermost body does the first nest's
\* store and then the second's.
C5_NestsFuseInOrder ==
    TwinNests =>
        /\ pc # "fault"
        /\ (Scanning /\ fusionCount = 0 /\ Len(loops) = 4)
              => isLoopFusionApplicable(fn, am, loops[1], loops[3])
        /\ pc = "done" => SingleNest(fn, getLoopsInPreorder(fn))

\* the two nests fused into one at the fixed point
C5_Witness == TwinNests /\ pc = "done" /\ fusionCount = 2


\* C6 as stated: with -profitability-check on, a pair that was fused is a
\* pair isProfitable found profitable.
C6_UnprofitableNotFused ==
    (ProfitabilityCheck /\ JustFused) => profitable = "yes"

\* the loops written in the program, the nested ones included
RECURSIVE CountLoops(_)
CountLoops(ls) ==
    IF ls = <<>> THEN 0
    ELSE 1 + CountLoops(Head(ls).inner) + CountLoops(Tail(ls))

InitialLoops == CountLoops(prog)

\* the first scan of a run
FirstScan == pc = "top" /\ pc' = "scan" /\ fusionCount = 0

\* a scan starts on the function a fusion has changed
Rescan == pc = "top" /\ pc' = "scan" /\ fusionCount > 0

\* C7: every run stops, by returning or by aborting on the use of an erased
\* block; the scan that follows a fusion finds strictly fewer loops than the
\* scan before it; a scan without an accepted pair is followed by the
\* return alone; and no run applies more than (initial loops - 1) fusions,
\* the initial loops being those the first scan finds.
C7_RunTerminates ==
    /\ <>Stopped
    /\ [][FirstScan => Len(loops') = InitialLoops]_vars
    /\ [][Rescan => Len(loops') < Len(loops)]_vars
    /\ [][(pc = "after" /\ ~isLoopFusionApplied) => pc' = "done"]_vars
    /\ [](fusionCount <= InitialLoops - 1)

\* a chain of three loops fused into one in two fusions, and run returned
C7_Witness ==
    /\ pc = "done" /\ InitialLoops = 3
    /\ fusionCount = 2 /\ Len(loops) = 1

\* the analyses in use are the ones of the function as it is now
Fresh == am.valid /\ am = Analyse(fn, diMode, fusionCount)

C9_ApplyOnlyAfterOracle ==
    /\ [](pc \in {"profit", "apply"} =>
            /\ i \in Positions /\ j \in Positions /\ i < j
            /\ loops[i] # loops[j]
            /\ loops = getLoopsInPreorder(fn)
            /\ isLoopFusionApplicable(fn, am, loops[i], loops[j]))
    /\ [][fn' # fn => pc = "apply"]_vars
    /\ [][pc' = "apply" => pc \in {"scan", "profit"}]_vars

\* a pair accepted and fused with -profitability-check on
C9_Witness ==
    /\ JustFused /\ ProfitabilityCheck
    /\ i < j /\ fn # fnPrev
    /\ isLoopFusionApplicable(fnPrev, am, loops[i], loops[j])

\* header, preheader and latch of a loop
Frame(f, L) == {getHeader(L), getLoopPreheader(f, L), getLoopLatch(f, L)}

\* C10 as stated: after applyLoopFusion on two loops in simplified form,
\* the header, the preheader and the latch of L2 are no blocks of the
\* function.
C10_SecondLoopFrameGone ==
    (JustFused /\ isLoopSimplifyForm(fnPrev, loops[i])
               /\ isLoopSimplifyForm(fnPrev, loops[j]))
        => Frame(fnPrev, loops[j]) \cap DOMAIN fn = {}

\* ---- one iteration of the fused loop ----

\* the instructions one iteration executes from block b on, each with its
\* block, up to the branch back to the header
RECURSIVE Walk(_, _, _, _)
Walk(f, L, b, fuel) ==
    LET here == [k \in 1..(Len(f[b]) - 1) |-> << b, f[b][k].id >>]
        next == {t \in successors(f, b) : contains(L, t)}
    IN IF fuel = 0 \/ Cardinality(next) # 1 \/ next = {getHeader(L)}
       THEN here
       ELSE here \o Walk(f, L, CHOOSE t \in next : TRUE, fuel - 1)

Iteration(f, L) == Walk(f, L, getHeader(L), Cardinality(L.blocks))

\* a loop without inner loops or branches in its body
Straight(f, L) ==
    \A b \in L.blocks : Cardinality({t \in successors(f, b) : contains(L, t)}) = 1

OutsideOf(bs, e) == e[1] \notin bs
IdOf(e) == e[2]
MemberOf(ids, e) == e[2] \in ids

Ids(es) == [k \in DOMAIN es |-> IdOf(es[k])]

\* the body of L: what an iteration executes between the header and the latch
BodyOf(f, L) ==
    LET frame == {getHeader(L), getLoopLatch(f, L)}
        Inner(e) == OutsideOf(frame, e)
    IN Ids(SelectSeq(Iteration(f, L), Inner))

BodiesInOrder(before, after, L1, L2) ==
    LET b1 == BodyOf(before, L1)
        b2 == BodyOf(before, L2)
        fused == LoopOf(after, getHeader(L1))
        it == Iteration(after, fused)
        Kept(e) == MemberOf(Range(b1) \cup Range(b2), e)
    IN /\ getHeader(L1) \in DOMAIN after
       /\ Straight(after, fused)
       /\ getLoopLatch(after, fused) = getLoopLatch(before, L1)
       /\ Ids(SelectSeq(it, Kept)) = b1 \o b2

\* C11: fusing two loops without inner loops leaves a loop one iteration of
\* which, from L1's header to L1's latch, executes the instructions of L1's
\* body and then those of L2's body, each once and in their order, whether
\* the bodies are one block or several.
C11_BodiesRunInOrder ==
    [][(/\ pc = "apply"
        /\ fusionCount < FusionCap
        /\ Straight(fn, loops[i])
        /\ Straight(fn, loops[j]))
       => (pc' = "after" /\ BodiesInOrder(fn, fn', loops[i], loops[j]))]_vars

\* ---- the distance of a store and a load ----

\* the first loop stores into the array the second loop loads from
StoreAndLoad ==
    /\ FirstPair
    /\ SameSpace
    /\ prog[2].stmts[1].src = prog[1].stmts[1].dst

\* start and step of the address of element stride * (i + off), i from start
AddressStart(stride, start, off) == ElemSize * stride * (start + off)
AddressStep(stride) == ElemSize * stride

StartDelta ==
    AddressStart(prog[1].stmts[1].dstr, prog[1].start, prog[1].stmts[1].doff)
    - AddressStart(prog[2].stmts[1].sstr, prog[2].start, prog[2].stmts[1].soff)

StepDelta == AddressStep(prog[1].stmts[1].dstr) - AddressStep(prog[2].stmts[1].sstr)

NegativeNow ==
    isNegativeDistance(am, loops[1], loops[2], StoreOf(loops[1]), LoadOf(loops[2]))

C15_NoFusablePairLeft ==
    pc = "done" =>
        LET an == Analyse(fn, diMode, fusionCount)
        IN \A a \in 1..Len(an.LI), b \in 1..Len(an.LI) :
              a < b => ~isLoopFusionApplicable(fn, an, an.LI[a], an.LI[b])

\* run returned after a fusion and left several loops
C15_Witness ==
    /\ pc = "done"
    /\ fusionCount > 0
    /\ Len(getLoopsInPreorder(fn)) >= 2

\* ---- the order of the scan ----

AcceptedPairs(f, an) ==
    {p \in (1..Len(an.LI)) \X (1..Len(an.LI)) :
        p[1] < p[2] /\ isLoopFusionApplicable(f, an, an.LI[p[1]], an.LI[p[2]])}

FirstOf(P) ==
    CHOOSE p \in P : \A q \in P : p[1] < q[1] \/ (p[1] = q[1] /\ p[2] <= q[2])

\* the function that fusing the first accepted pair, scan after scan, ends in
RECURSIVE FusedThrough(_, _, _)
FusedThrough(f, di, count) ==
    IF Dangling(f) \/ count >= FusionCap THEN f
    ELSE LET an == Analyse(f, di, count)
             P == AcceptedPairs(f, an)
         IN IF P = {} THEN f
            ELSE LET p == FirstOf(P)
                     r == applyLoopFusion(f, an.LI[p[1]], an.LI[p[2]])
                 IN IF r.fault THEN f ELSE FusedThrough(r.f, di, count + 1)

\* C16: the pair a scan fuses is the first pair (i, j), i < j, in
\* lexicographic order that the oracle accepts, so that the function run
\* returns with is determined by the function it was given.
C16_FirstAcceptedPairFused ==
    /\ pc \in {"profit", "apply"} =>
          /\ AcceptedPairs(fn, am) # {}
          /\ << i, j >> = FirstOf(AcceptedPairs(fn, am))
    /\ pc = "done" => fn = FusedThrough(BuildFn(prog), diMode, 0)

\* a scan with two accepted pairs about to fuse one
C16_Witness ==
    /\ pc = "apply"
    /\ Cardinality(AcceptedPairs(fn, am)) >= 2

\* ---- the latch of the fused loop ----

FusedLoop == LoopOf(fn, getHeader(loops[i]))

FusedLatchIs(b) ==
    /\ getHeader(loops[i]) \in DOMAIN fn
    /\ b # Null
    /\ getLoopLatch(fn, FusedLoop) = b
    /\ getHeader(loops[i]) \in successors(fn, b)

LoadThenStore ==
    /\ SameSpace
    /\ prog[1].stmts[1].src # 0
    /\ prog[1].stmts[1].src = prog[2].stmts[1].dst
    /\ prog[1].stmts[1].sstr = 1 /\ prog[2].stmts[1].dstr = 1
    /\ \E k \in 0..(prog[1].n - 1), m \in 0..(prog[2].n - 1) :
          m < k /\ m + prog[2].stmts[1].doff = k + prog[1].stmts[1].soff

\* C18: when a load of L1 reads, at some iteration, a location that a store
\* of L2 writes at an earlier iteration, the oracle rejects the pair.
C18_BackwardDependenceRejected ==
    (FirstPair /\ LoadThenStore) => ~isLoopFusionApplicable(fn, am, loops[1], loops[2])

\* ---- adjacency one way only ----

\* the function as built: loops one after the other, none inside another
InSequence == Scanning /\ fusionCount = 0 /\ Len(loops) = Len(prog)

\* C19: areAdjacents is not symmetric: of two loops one after the other,
\* areAdjacents(L1, L2) is true and areAdjacents(L2, L1) is false.
C19_AdjacentOneWay ==
    InSequence =>
        \A a \in 1..(Len(loops) - 1) :
            /\ areAdjacents(fn, loops[a], loops[a + 1])
            /\ ~areAdjacents(fn, loops[a + 1], loops[a])

\* the scan at a pair adjacent one way and not the other
C19_Witness ==
    /\ InSequence
    /\ j = i + 1
    /\ j <= Len(loops)
    /\ areAdjacents(fn, loops[i], loops[j])
    /\ ~areAdjacents(fn, loops[j], loops[i])

\* ---- the preheader of the second loop ----

PhisOf(f, b) == {x \in Range(f[b]) : x.op = "phi"}

\* the phis of L1's header that came from L2's header
MovedPhis ==
    {x \in PhisOf(fn, getHeader(loops[i])) :
        x.id \in {y.id : y \in PhisOf(fnPrev, getHeader(loops[j]))}}

IncomingBlocks(x) == {x.inc[k].blk : k \in DOMAIN x.inc}

\* C20: a fusion redirects every reference to L2's preheader, branch target
\* or phi incoming block, to L1's preheader, so that every phi moved from
\* L2's header into L1's header names L1's preheader as the block of its
\* entry value.
C20_PreheaderRedirected ==
    (JustFused /\ getLoopPreheader(fnPrev, loops[i]) # Null
               /\ getLoopPreheader(fnPrev, loops[j]) # Null) =>
        /\ \A x \in AllInsts(fn) :
              getLoopPreheader(fnPrev, loops[j]) \notin Range(x.succ) \cup IncomingBlocks(x)
        /\ \A x \in MovedPhis :
              getLoopPreheader(fnPrev, loops[i]) \in IncomingBlocks(x)

\* ---- the induction variable of the fused loop ----

\* both loops of the pair just fused had a recognised induction variable
BothInductions ==
    /\ JustFused
    /\ getInductionVariable(fnPrev, loops[i]) # Null
    /\ getInductionVariable(fnPrev, loops[j]) # Null

\* instruction u of the old function, L2's induction variable iv2 replaced
\* by L1's iv1 in its operands
WithInduction(u, iv2, iv1) == ReplaceVal(u, iv2, R(iv1))

\* u is still in the function, and reads iv1 wherever it read iv2
NowUses(f, u, iv2, iv1) ==
    \A x \in AllInsts(f) :
        x.id = u.id =>
            /\ ~UsesValue(x, iv2)
            /\ UsesValue(x, iv1)
            /\ x.x = WithInduction(u, iv2, iv1).x
            /\ x.y = WithInduction(u, iv2, iv1).y

InductionReplaced(before, after, iv2, iv1) ==
    /\ \A x \in AllInsts(after) : x.id # iv2
    /\ users(after, iv2) = {}
    /\ \A u \in users(before, iv2) : NowUses(after, u, iv2, iv1)

\* C21: when both loops have a recognised induction variable, after the
\* fusion every former use of L2's induction variable uses L1's, and L2's
\* induction phi is nowhere in the function
C21_InductionReplaced ==
    BothInductions =>
        InductionReplaced(fnPrev, fn, getInductionVariable(fnPrev, loops[j]),
                          getInductionVariable(fnPrev, loops[i]))

\* a fusion after which a statement of L2 that indexed by L2's induction
\* variable is in the function and indexes by L1's
C21_Witness ==
    /\ BothInductions
    /\ \E u \in users(fnPrev, getInductionVariable(fnPrev, loops[j])) :
          /\ u.op = "add"
          /\ \E x \in AllInsts(fn) :
                /\ x.id = u.id
                /\ UsesValue(x, getInductionVariable(fnPrev, loops[i]))

\* ---- the induction values the second body observes ----

\* the instructions of L's body (neither header nor latch) that read iv
BodyReaders(f, L, iv) ==
    {u \in users(f, iv) :
        /\ getParent(f, u.id) \in L.blocks
        /\ getParent(f, u.id) \notin {getHeader(L), getLoopLatch(f, L)}}

\* the value operand op has in iteration k (from 0) of the loop headed by h
ValueAt(f, op, h, k) ==
    LET a == SCEVOf(f, AllLoops(f), op)
    IN a.start + StepOf(a, h) * k

\* what instruction id reads as its first operand in iteration k
ObservedBy(f, id, h, k) == ValueAt(f, InstById(f, id).x, h, k)

\* trip count of the loop headed by h, as ScalarEvolution counts it
TripsOf(f, h) == getSmallConstantTripCount(f, AllLoops(f), LoopOf(f, h))

\* N counts the runs of the header; the body runs once less
SameObservations(before, after, L1, L2, N) ==
    \A u \in BodyReaders(before, L2, getInductionVariable(before, L2)) :
        \A k \in 0..(N - 2) :
            ObservedBy(after, u.id, getHeader(L1), k)
                = ObservedBy(before, u.id, getHeader(L2), k)

\* C22: when both induction variables are recognised and the loops have the
\* same non-zero trip count, the fused loop has that trip count and in
\* each of its iterations the body of L2 observes the induction value it
\* observed in that iteration of L2, whatever the loops' initial values
C22_SameInductionValues ==
    (/\ BothInductions
     /\ TripsOf(fnPrev, getHeader(loops[i])) = TripsOf(fnPrev, getHeader(loops[j]))
     /\ TripsOf(fnPrev, getHeader(loops[i])) # 0)
        => /\ TripsOf(fn, getHeader(loops[i])) = TripsOf(fnPrev, getHeader(loops[j]))
           /\ SameObservations(fnPrev, fn, loops[i], loops[j],
                               TripsOf(fnPrev, getHeader(loops[j])))

\* ---- a store that writes, in a later iteration, what a load reads ----

\* with the store of L1 at start1 + step1 * a and the load of L2 at
\* start2 + step2 * b, some iteration a of the store after iteration b of
\* the load touches the address that load reads
LaterStoreCollides(start1, step1, start2, step2, n) ==
    \E a, b \in 0..(n - 1) :
        a > b /\ start1 + step1 * a = start2 + step2 * b

CollidesNow ==
    LaterStoreCollides(
        AddressStart(prog[1].stmts[1].dstr, prog[1].start, prog[1].stmts[1].doff),
        AddressStep(prog[1].stmts[1].dstr),
        AddressStart(prog[2].stmts[1].sstr, prog[2].start, prog[2].stmts[1].soff),
        AddressStep(prog[2].stmts[1].sstr),
        prog[1].n)

\* C23: for a store of L1 and a load of L2 on the same base with constant
\* starts and steps, ascending or descending, whenever isNegativeDistance
\* returns false no iteration of the store later than an iteration of the
\* load touches the address that load reads
C23_NoLaterStoreCollides ==
    (StoreAndLoad /\ ~NegativeNow) => ~CollidesNow

\* ---- accesses on different base pointers ----

\* the memory accesses of L1 and of L2 that are affine recurrences in their
\* loops, taken in pairs
RecurrencePairs(L1, L2) ==
    {p \in fillMemoryVector(fn, L1) \X fillMemoryVector(fn, L2) :
        /\ getSCEVAddRec(am, p[1], L1).rec
        /\ getSCEVAddRec(am, p[2], L2).rec}

DifferentBases(L1, L2, p) ==
    getSCEVAddRec(am, p[1], L1).base # getSCEVAddRec(am, p[2], L2).base

\* C24: isNegativeDistance returns true when the two affine recurrences
\* have different base pointers, as it does when an access has no affine
\* recurrence
C24_DifferentBasesNegative ==
    FirstPair =>
        \A p \in RecurrencePairs(loops[1], loops[2]) :
            DifferentBases(loops[1], loops[2], p)
                => isNegativeDistance(am, loops[1], loops[2], p[1], p[2])

\* ---- accesses isNegativeDistance cannot compare ----

\* the memory accesses of L1 and of L2, taken in pairs
AccessPairs(L1, L2) == fillMemoryVector(fn, L1) \X fillMemoryVector(fn, L2)

\* an access of the pair has no affine recurrence
NoRecurrence(r1, r2) == ~r1.rec \/ ~r2.rec

\* both are recurrences on one base whose starts do not differ by a constant
NoConstantDelta(r1, r2) ==
    /\ r1.rec /\ r2.rec
    /\ r1.base = r2.base
    /\ ~getConstDelta(r1.start, r2.start).const

Incomparable(L1, L2, p) ==
    \/ NoRecurrence(getSCEVAddRec(am, p[1], L1), getSCEVAddRec(am, p[2], L2))
    \/ NoConstantDelta(getSCEVAddRec(am, p[1], L1), getSCEVAddRec(am, p[2], L2))

StoresIn(f, L) ==
    {x \in fillMemoryVector(f, L) : x.op = "store"}

\* the store's address comes from the load's root pointer through zero or
\* more address computations, wherever those are located
DerivedFromRootOf(f, store, load) ==
    StripGEPs(f, getLoadStorePointerOperand(store), SCEVDepth)
        = StripGEPs(f, getLoadStorePointerOperand(load), SCEVDepth)

\* a load of L2 and a store inside L1 on the load's root pointer, dependent
\* according to the oracle and at negative distance
ForbiddenPair(f, an, L1, L2) ==
    \E load \in fillLoadStoreVectors(f, L2) :
        \E store \in StoresIn(f, L1) :
            /\ DerivedFromRootOf(f, store, load)
            /\ depends(an, store, load)
            /\ isNegativeDistance(an, L1, L2, store, load)

\* C26: areDependent(L1, L2) is true exactly when a load of L2 and a store
\* located inside L1 exist, the store's address derived from the load's
\* root pointer by address computations located anywhere, that the oracle
\* reports dependent and isNegativeDistance reports negative
C26_DependentIffForbiddenPair ==
    Scanning =>
        \A a \in Positions : \A b \in Positions :
            a # b => (areDependent(fn, am, loops[a], loops[b])
                        <=> ForbiddenPair(fn, am, loops[a], loops[b]))

\* ---- what makes a fusion profitable ----

\* a sum of deltas no further than one cache line from zero
WithinCacheLine(sum) == (0 - CACHE_LINE_DIM) <= sum /\ sum <= CACHE_LINE_DIM

\* the recurrences are on one base and their start delta plus their step
\* delta lies within one cache line
NearBetween(r1, r2) ==
    /\ r1.rec /\ r2.rec
    /\ r1.base = r2.base
    /\ getConstDelta(r1.start, r2.start).const
    /\ WithinCacheLine(getConstDelta(r1.start, r2.start).v + (r1.step - r2.step))

\* the pairs of an access of L1 and an access of L2 the oracle reports
\* dependent and that are near each other
NearPairs(L1, L2) ==
    {p \in AccessPairs(L1, L2) :
        /\ depends(am, p[1], p[2])
        /\ NearBetween(getSCEVAddRec(am, p[1], L1), getSCEVAddRec(am, p[2], L2))}

LongEnough(L1) == tripCount(am, getHeader(L1)) > MIN_TRIP_COUNT

\* C27: isProfitable is true exactly when the number of dependent pairs on
\* one base whose deltas sum to within one cache line of 64 bytes, plus
\* one when L1's trip count is strictly greater than 10, is positive
C27_ProfitableIffScorePositive ==
    FirstPair =>
        (isProfitable(am, loops[1], loops[2],
                      fillMemoryVector(fn, loops[1]), fillMemoryVector(fn, loops[2]))
            <=> (Cardinality(NearPairs(loops[1], loops[2]))
                    + (IF LongEnough(loops[1]) THEN 1 ELSE 0) > 0))

\* ---- the function a fusion leaves is well formed ----

\* the block ends in a terminator and holds no other
OneTerminator(f, b) ==
    /\ Len(f[b]) > 0
    /\ \A k \in 1..Len(f[b]) : isTerminator(f[b][k]) <=> (k = Len(f[b]))

\* every target of the block's branch is a block of the function
TargetsExist(f, b) == \A t \in successors(f, b) : t \in DOMAIN f

\* every incoming block of every phi of b is a block of the function and
\* a predecessor of b
PhisNamePredecessors(f, b) ==
    \A x \in PhisOf(f, b) :
        \A k \in 1..Len(x.inc) :
            /\ x.inc[k].blk \in DOMAIN f
            /\ x.inc[k].blk \in predecessors(f, b)

WellFormed(f) ==
    \A b \in DOMAIN f :
        OneTerminator(f, b) /\ TargetsExist(f, b) /\ PhisNamePredecessors(f, b)

\* C29: after a fusion that completed, every block ends in exactly one
\* terminator, every branch target exists and every incoming block of a
\* phi exists and is a predecessor of the phi's block, also when a phi of
\* L2's header that still has uses was moved into L1's header
C29_FusedFunctionWellFormed == JustFused => WellFormed(fn)

\* ---- the branch of the fused header ----

\* the terminator of block b is a conditional branch to exactly the blocks ts
BranchesTo(f, b, ts) ==
    /\ b \in DOMAIN f
    /\ getTerminator(f, b).op = "br"
    /\ Len(getTerminator(f, b).succ) = 2
    /\ Range(getTerminator(f, b).succ) = ts

\* C30: after a fusion the terminator of L1's header is a conditional
\* branch whose two targets are L1's first body block and L2's exit
\* block, whichever successor position L2's header used for its body
C30_HeaderBranchesToBodyAndExit ==
    JustFused =>
        BranchesTo(fn, getHeader(loops[i]),
                   {getFirstBodyBlock(fnPrev, loops[i]), getExitBlock(fnPrev, loops[j])})

\* ---- adjacency and control-flow equivalence on graphs ----

Checked == pc = "scan" /\ verdict.checked

\* C12: areAdjacents(L1, L2) is false whenever L1 has no unique exit block
\* or L2 has no preheader, also when both are missing.
C12_MissingBlockNotAdjacent ==
    (Checked /\ (\/ getExitBlock(fn, loops[i]) = Null
                 \/ getLoopPreheader(fn, loops[j]) = Null))
        => ~verdict.adjacent

\* the block the guard of L branches to when the loop is skipped, in
\* whichever successor position it is
SkipTarget(f, L) ==
    GuardOther(getTerminator(f, getLoopGuardBlock(f, L)), getLoopPreheader(f, L))

\* C28: for a guarded L1 areAdjacents compares L2's entry block with the
\* successor of L1's guard branch taken when the loop is skipped, whichever
\* successor position that target occupies; for an unguarded L1 with L1's
\* unique exit block
C28_GuardSkipTargetCompared ==
    Checked =>
        (verdict.adjacent
            <=> (getBlockToCheck(fn, loops[j])
                    = (IF isGuarded(fn, loops[i]) THEN SkipTarget(fn, loops[i])
                       ELSE getExitBlock(fn, loops[i]))))

\* the paths from block b to a return, as block sequences of at most
\* fuel + 1 blocks
RECURSIVE PathsFrom(_, _, _)
PathsFrom(f, b, fuel) ==
    IF getTerminator(f, b).op = "ret" THEN {<< b >>}
    ELSE IF fuel = 0 THEN {}
    ELSE {<< b >> \o p : p \in UNION {PathsFrom(f, t, fuel - 1) : t \in successors(f, b)}}

\* a path through a block and not through another needs no more than a simple
\* path to the first and a simple path from it
Paths(f) == PathsFrom(f, EntryBlock, 2 * Cardinality(DOMAIN f))

EveryBlockExits(f) == \A b \in DOMAIN f : PathsFrom(f, b, Cardinality(DOMAIN f)) # {}

OnSamePaths(f, h1, h2) == \A p \in Paths(f) : (h1 \in Range(p)) <=> (h2 \in Range(p))

\* C13: when areCFE(L1, L2) is true, a path from the entry block to a return
\* passes through L1's header exactly if it passes through L2's header, in
\* every graph all of whose blocks reach a return.
C13_CFEMeansSamePaths ==
    (Checked /\ verdict.cfe /\ EveryBlockExits(fn))
        => OnSamePaths(fn, getHeader(loops[i]), getHeader(loops[j]))

\* two loops one after the other found equivalent, on a path and off another
C13_Witness ==
    /\ Checked
    /\ verdict.cfe
    /\ EveryBlockExits(fn)
    /\ loops[i].blocks \cap loops[j].blocks = {}
    /\ \E p \in Paths(fn) : getHeader(loops[i]) \in Range(p)
    /\ \E p \in Paths(fn) : getHeader(loops[i]) \notin Range(p)

====
